---- MODULE Spec2Model ----
(***************************************************************************)
(* Model of the sandalphone VPS voice gateway: the Session Store, the      *)
(* Voice Orchestrator (handshake, control, per-frame pipeline, metrics),   *)
(* the Egress Store and the boundary wiring between them.                  *)
(*                                                                         *)
(* Strings that the code concatenates (the external-id index key) are      *)
(* sequences of one-character strings.  Session ids minted by randomUUID   *)
(* are fresh naturals.  `undefined` numbers are the value Undefined.       *)
(***************************************************************************)
EXTENDS Integers, Sequences, FiniteSets, TLC

\* ------------------------------------------------------------------ bounds

\* Largest number of sessions the model mints (randomUUID calls).
MaxSessions == 3
\* Frame timestamps are drawn from 0..MaxTs.
MaxTs == 4
\* Largest configured minFrameIntervalMs explored.
MaxInterval == 2
\* Largest configured maxQueuePerSession explored (the smallest is 1).
MaxQueueBound == 2
\* Number of audio frames delivered in one behaviour.
MaxFrames == 3
\* Number of TTS chunks handed to the Egress Store in one behaviour.
MaxChunks == 4
\* Number of audio frames delivered in one behaviour of the whole pipeline.
MaxPipelineFrames == 2
\* Number of audio frames delivered in one behaviour of the session lifecycle.
MaxSessionFrames == 1
\* Number of audio frames delivered in one behaviour of the event stream.
MaxEventFrames == 2
\* End requests (and, in the control stream, control patches) stop once this
\* many events were emitted.
MaxEvents == 3
\* Chunks handed to the Egress Store while calls are ended.
MaxEndChunks == 2
\* Number of envelopes handed to the event bridge in one behaviour.
MaxEnvelopes == 2
\* Number of requests the boundary server is sent in one behaviour.
MaxRequests == 2
\* Number of synthesized chunks that arrive while the boundary server is polled.
MaxHttpChunks == 1
\* Number of webhook requests Twilio's route is sent in one behaviour.
MaxWebhooks == 1

\* ------------------------------------------------------------ domain types

\* `undefined` for an optional number (metrics fields, map lookups).
Undefined == -1

Voipms == <<"v", "o", "i", "p", "m", "s">>
Twilio == <<"t", "w", "i", "l", "i", "o">>
IngressSource == {Voipms, Twilio}

SessionMode == {"private_translation", "passthrough"}
LanguageCode == {"en", "es"}
SessionState == {"pending", "active", "ended", "failed"}

\* External call ids the ingress sends (callId / CallSid).
CallIds == {<<"a">>, <<"b">>}

\* The record standing for `undefined` where a CallSession is expected.
NoSession ==
  [id |-> 0, source |-> <<>>, mode |-> "none", sourceLanguage |-> "none",
   targetLanguage |-> "none", state |-> "none", inboundCaller |-> <<>>, startedAtMs |-> 0]

\* SessionMetrics of a session that has none yet: `{ sessionId }`.
EmptyMetrics ==
  [sttLatencyMs |-> Undefined, translationLatencyMs |-> Undefined,
   ttsLatencyMs |-> Undefined, pipelineLatencyMs |-> Undefined,
   droppedFrames |-> Undefined, passthroughFrames |-> Undefined,
   translatedChunks |-> Undefined, egressQueuePeak |-> Undefined,
   egressDropCount |-> Undefined]

\* `a ?? b`
Coalesce(a, b) == IF a = Undefined THEN b ELSE a

Max(a, b) == IF a >= b THEN a ELSE b
Min(a, b) == IF a <= b THEN a ELSE b

\* The last k elements of s.
LastK(s, k) == SubSeq(s, Len(s) - k + 1, Len(s))

\* A function with one more (or one replaced) entry: Map.set(k, v).
MapSet(m, k, v) == [x \in DOMAIN m \cup {k} |-> IF x = k THEN v ELSE m[x]]
\* Map.delete(k)
MapDelete(m, k) == [x \in DOMAIN m \ {k} |-> m[x]]
EmptyMap == [x \in {} |-> 0]

VARIABLES
  \* SessionStore
  sessions,            \* Map<string, CallSession>, keyed by minted id
  externalToInternal,  \* Map<string, string>: `${source}:${externalCallId}` -> id
  nextId,              \* the next id randomUUID mints
  \* VoiceOrchestrator
  metrics,             \* Map<string, SessionMetrics>
  lastFrameAtMs,       \* Map<string, number>
  minFrameIntervalMs,  \* deps.minFrameIntervalMs (Undefined when unset)
  hasOnSessionEvent,   \* whether deps.onSessionEvent is set
  inflight,            \* frames suspended at an await of onAudioFrame
  \* EgressStore
  queues,              \* Map<string, TtsChunk[]>
  maxQueuePerSession,  \* constructor argument
  \* observation
  ret,                 \* what the last operation was given and answered
  handshakes,          \* (source, externalCallId) -> id answered by its first handshake
  sttLog,              \* per session: timestamps of the frames handed to stt.transcribe
  frameLog,            \* per session: timestamps of the frames delivered in translation mode
  frameCount,          \* audio frames delivered so far
  chunkCount,          \* TTS chunks synthesized so far
  egressLog,           \* per session: what became of the chunks given to the Egress Store
  emitted,             \* the session events handed to deps.onSessionEvent, in order
  \* OpenClawBridge
  maxAttempts,         \* option: the attempts one envelope gets
  bridgeQueue,         \* the envelopes waiting for delivery, oldest first
  draining,            \* whether a drain loop is running
  drainLoops,          \* the running drain loops, each at its position
  nextKey,             \* the next key randomUUID mints for a command
  \* observation of the bridge
  enqueued,            \* the envelopes enqueued so far, in order
  posts,               \* the POSTs issued so far, in order, with their answers
  \* boundary server
  asteriskSharedSecret, \* opts.asteriskSharedSecret
  controlApiSecret,    \* opts.controlApiSecret
  twilioAuthToken,     \* opts.twilioAuthToken
  publicBaseUrl,       \* opts.publicBaseUrl
  request,             \* the request being handled, or the last one answered
  socket               \* the media WebSocket: `sessionId` and `callSid` of its handlers

storeVars == <<sessions, externalToInternal, nextId>>
orchVars == <<metrics, lastFrameAtMs, inflight>>
egressVars == <<queues>>
configVars == <<minFrameIntervalMs, maxQueuePerSession, hasOnSessionEvent>>
obsVars == <<ret, handshakes, sttLog, frameLog, frameCount, chunkCount, egressLog, emitted>>
bridgeVars == <<maxAttempts, bridgeQueue, draining, drainLoops, nextKey, enqueued, posts>>
httpVars == <<asteriskSharedSecret, controlApiSecret, twilioAuthToken, publicBaseUrl, request, socket>>
vars == <<storeVars, orchVars, egressVars, configVars, obsVars, bridgeVars, httpVars>>

\* ------------------------------------------------------------ SessionStore

\* `${source}:${externalCallId}`
KeyWithoutSource(source, externalCallId) == <<":">> \o externalCallId
ExternalKey(source, externalCallId) == source \o <<":">> \o externalCallId

getByExternalNoPrefix(ext, sess, source, externalCallId) ==
  IF externalCallId \in DOMAIN ext /\ ext[externalCallId] \in DOMAIN sess
  THEN sess[ext[externalCallId]]
  ELSE NoSession
\* A lookup that does not find a session that has ended.
getByExternalLive(ext, sess, source, externalCallId) ==
  LET key == source \o <<":">> \o externalCallId IN
  IF key \in DOMAIN ext /\ ext[key] \in DOMAIN sess /\ sess[ext[key]].state # "ended"
  THEN sess[ext[key]]
  ELSE NoSession
getByExternal(ext, sess, source, externalCallId) ==
  LET key == ExternalKey(source, externalCallId) IN
  IF key \in DOMAIN ext /\ ext[key] \in DOMAIN sess THEN sess[ext[key]] ELSE NoSession

get(sess, id) == IF id \in DOMAIN sess THEN sess[id] ELSE NoSession

\* The session record createFromIncoming builds for a freshly minted id.
NewSession(id, source) ==
  [id |-> id, source |-> source, mode |-> "private_translation",
   sourceLanguage |-> "es", targetLanguage |-> "en", state |-> "pending",
   inboundCaller |-> <<>>, startedAtMs |-> 0]

\* `inboundCaller: event.from, startedAtMs: event.receivedAtMs` of the session
\* createFromIncoming builds.
createdFrom(sess, id, from, receivedAtMs) ==
  [sess EXCEPT ![id].inboundCaller = from, ![id].startedAtMs = receivedAtMs]

createFromIncomingSessions(sess, id, source) == MapSet(sess, id, NewSession(id, source))
createFromIncomingIndex(ext, id, source, externalCallId) ==
  MapSet(ext, ExternalKey(source, externalCallId), id)

updateState(sess, id, state) ==
  IF id \in DOMAIN sess THEN [sess EXCEPT ![id].state = state] ELSE sess

all(sess) == {sess[id] : id \in DOMAIN sess}

\* updateControl(id, patch): fields absent from the patch are "none".  A patch
\* has no effect on a session that is not live (pending or active).
ControlPatches ==
  {[mode |-> "passthrough", sourceLanguage |-> "none", targetLanguage |-> "none"],
   [mode |-> "private_translation", sourceLanguage |-> "none", targetLanguage |-> "none"]}

PatchField(patched, current) == IF patched = "none" THEN current ELSE patched

updateControlAllowed(sess, id) ==
  id \in DOMAIN sess /\ sess[id].state \in {"pending", "active"}

updateControl(sess, id, patch) ==
  IF updateControlAllowed(sess, id)
  THEN [sess EXCEPT ![id].mode = PatchField(patch.mode, @),
                    ![id].sourceLanguage = PatchField(patch.sourceLanguage, @),
                    ![id].targetLanguage = PatchField(patch.targetLanguage, @)]
  ELSE sess

\* ------------------------------------------------- VoiceOrchestrator: metrics

metricsGet(m, sessionId) == IF sessionId \in DOMAIN m THEN m[sessionId] ELSE EmptyMetrics

\* incrementMetric, one operator per field the code passes.
incrementDroppedFrames(m, sessionId) ==
  LET current == metricsGet(m, sessionId) IN
  MapSet(m, sessionId,
         [current EXCEPT !.droppedFrames = Coalesce(current.droppedFrames, 0) + 1])

incrementPassthroughAsDropped(m, sessionId) == incrementDroppedFrames(m, sessionId)
incrementPassthroughFrames(m, sessionId) ==
  LET current == metricsGet(m, sessionId) IN
  MapSet(m, sessionId,
         [current EXCEPT !.passthroughFrames = Coalesce(current.passthroughFrames, 0) + 1])

incrementTranslatedChunks(m, sessionId) ==
  LET current == metricsGet(m, sessionId) IN
  MapSet(m, sessionId,
         [current EXCEPT !.translatedChunks = Coalesce(current.translatedChunks, 0) + 1])

markFrameDropped(m, sessionId) == incrementDroppedFrames(m, sessionId)

\* A trackMetrics that writes a fresh entry holding the delta alone.
trackMetricsFresh(m, sessionId, stt, mt, tts, pipeline) ==
  MapSet(m, sessionId,
         [EmptyMetrics EXCEPT !.sttLatencyMs = stt, !.translationLatencyMs = mt,
                              !.ttsLatencyMs = tts, !.pipelineLatencyMs = pipeline])

\* trackMetrics(sessionId, delta): delta fields that are Undefined keep the
\* previous sample.
trackMetrics(m, sessionId, stt, mt, tts, pipeline) ==
  LET previous == metricsGet(m, sessionId) IN
  MapSet(m, sessionId,
         [previous EXCEPT !.sttLatencyMs = Coalesce(stt, previous.sttLatencyMs),
                          !.translationLatencyMs = Coalesce(mt, previous.translationLatencyMs),
                          !.ttsLatencyMs = Coalesce(tts, previous.ttsLatencyMs),
                          !.pipelineLatencyMs = Coalesce(pipeline, previous.pipelineLatencyMs)])

reportEgressStatsLastSize(m, sessionId, queueSize, droppedOldest) ==
  LET current == metricsGet(m, sessionId) IN
  MapSet(m, sessionId,
         [current EXCEPT !.egressQueuePeak = queueSize,
                         !.egressDropCount = Coalesce(current.egressDropCount, 0) +
                                             (IF droppedOldest THEN 1 ELSE 0)])
reportEgressStats(m, sessionId, queueSize, droppedOldest) ==
  LET current == metricsGet(m, sessionId)
      egressQueuePeak == Max(Coalesce(current.egressQueuePeak, 0), queueSize)
      egressDropCount == Coalesce(current.egressDropCount, 0) + (IF droppedOldest THEN 1 ELSE 0)
  IN MapSet(m, sessionId,
            [current EXCEPT !.egressQueuePeak = egressQueuePeak,
                            !.egressDropCount = egressDropCount])

\* ------------------------------------------ VoiceOrchestrator: session events

\* A SessionEvent: its type, its session and, for the events of a frame, the
\* number of the frame (0 otherwise); the number stands for atMs and payload.
SessionEvent(type, sessionId, n) == [type |-> type, sessionId |-> sessionId, n |-> n]

\* A hook that is handed every event twice.
emitEventTwice(log, hook, event) == IF hook THEN Append(Append(log, event), event) ELSE log

\* emitEvent(event): the event is handed to deps.onSessionEvent when it is set.
emitEvent(log, hook, event) == IF hook THEN Append(log, event) ELSE log

\* --------------------------------------- VoiceOrchestrator: session lifecycle

\* onIncomingCall for a pair that already has a session: the session is
\* returned as it is.
onDuplicateCallReactivates(sess, existing) == updateState(sess, existing.id, "active")
onDuplicateCall(sess, existing) == sess

\* A handshake that leaves the new session as createFromIncoming made it.
onNewCallPending(sess, id, source) == createFromIncomingSessions(sess, id, source)

\* onIncomingCall for a new pair: create, then pending -> active.
onNewCall(sess, id, source) ==
  updateState(createFromIncomingSessions(sess, id, source), id, "active")

resolveSessionIdByExternal(ext, sess, source, externalCallId) ==
  getByExternal(ext, sess, source, externalCallId).id

\* An endSession that leaves the session's state as it is.
endSessionKeepsState(sess, sessionId) == sess

\* endSession: `this.deps.sessionStore.updateState(sessionId, "ended")`.
endSessionSessions(sess, sessionId) == updateState(sess, sessionId, "ended")

\* ------------------------------------------------------------- EgressStore

\* A TtsChunk: the session it is for and its payload (a tag that tells the
\* chunks apart).
TtsChunk(sessionId, payload) == [sessionId |-> sessionId, payload |-> payload]

queueOf(q, sessionId) == IF sessionId \in DOMAIN q THEN q[sessionId] ELSE <<>>

\* enqueue(chunk): push, then one shift when the queue is longer than the bound.
pushThenDropNewest(queue, chunk, bound) ==
  IF Len(queue) + 1 > bound THEN queue ELSE Append(queue, chunk)
pushThenShift(queue, chunk, bound) ==
  LET pushed == Append(queue, chunk) IN
  IF Len(pushed) > bound THEN Tail(pushed) ELSE pushed

\* An enqueue that puts the chunk ahead of those waiting.
enqueueAhead(q, chunk, bound) ==
  MapSet(q, chunk.sessionId,
         SubSeq(<<chunk>> \o queueOf(q, chunk.sessionId), 1,
                IF Len(queueOf(q, chunk.sessionId)) + 1 > bound THEN bound
                ELSE Len(queueOf(q, chunk.sessionId)) + 1))

\* A store that keeps the chunks of every session in the queue of session 1.
enqueueShared(q, chunk, bound) == MapSet(q, 1, pushThenShift(queueOf(q, 1), chunk, bound))

enqueue(q, chunk, bound) ==
  MapSet(q, chunk.sessionId, pushThenShift(queueOf(q, chunk.sessionId), chunk, bound))

\* What enqueue answers: {queueSize, droppedOldest}.
enqueueResult(q, chunk, bound) ==
  [queueSize |-> Len(queueOf(enqueue(q, chunk, bound), chunk.sessionId)),
   droppedOldest |-> Len(queueOf(q, chunk.sessionId)) + 1 > bound]

\* dequeue(sessionId): the chunk returned, NoChunk for `undefined`.
NoChunk == [sessionId |-> 0, payload |-> 0]

dequeueResult(q, sessionId) ==
  IF sessionId \notin DOMAIN q \/ Len(q[sessionId]) = 0 THEN NoChunk ELSE Head(q[sessionId])

dequeueKeepsEmpty(q, sessionId) ==
  IF sessionId \notin DOMAIN q \/ Len(q[sessionId]) = 0 THEN q
  ELSE MapSet(q, sessionId, Tail(q[sessionId]))
dequeue(q, sessionId) ==
  IF sessionId \notin DOMAIN q \/ Len(q[sessionId]) = 0 THEN q
  ELSE IF Len(Tail(q[sessionId])) = 0 THEN MapDelete(q, sessionId)
  ELSE MapSet(q, sessionId, Tail(q[sessionId]))

size(q, sessionId) == Len(queueOf(q, sessionId))

\* clear(sessionId): the session's queue is removed from the map.
clear(q, sessionId) == MapDelete(q, sessionId)

\* ---------------------------------------------- observation of the egress

\* What became of the chunks handed to the Egress Store for one session:
\* every chunk enqueued, those a dequeue returned, those that the overflow
\* policy (drop the oldest) or a clear removed, the largest queue size seen
\* after an enqueue, and the current run of enqueues (sent) with what the
\* dequeues since then returned (got).
EmptyEgressLog ==
  [enqueued |-> <<>>, returned |-> <<>>, dropped |-> {}, cleared |-> {},
   peak |-> 0, sent |-> <<>>, got |-> <<>>]

egressLogOf(log, sessionId) == IF sessionId \in DOMAIN log THEN log[sessionId] ELSE EmptyEgressLog

Range(f) == {f[x] : x \in DOMAIN f}

logEnqueue(log, qBefore, qAfter, chunk, bound) ==
  LET s == chunk.sessionId
      e == egressLogOf(log, s)
      before == queueOf(qBefore, s)
  IN MapSet(log, s,
       [e EXCEPT !.enqueued = Append(@, chunk),
                 !.dropped = IF Len(before) >= bound /\ Len(before) > 0
                             THEN @ \cup {Head(before)} ELSE @,
                 !.peak = Max(@, Len(queueOf(qAfter, s))),
                 !.sent = IF e.got = <<>> THEN Append(@, chunk) ELSE Append(before, chunk),
                 !.got = <<>>])

logDequeue(log, sessionId, chunk) ==
  IF chunk = NoChunk THEN log
  ELSE LET e == egressLogOf(log, sessionId) IN
       MapSet(log, sessionId,
              [e EXCEPT !.returned = Append(@, chunk), !.got = Append(@, chunk)])

logClear(log, qBefore, sessionId) ==
  IF sessionId \notin DOMAIN log THEN log
  ELSE [log EXCEPT ![sessionId].cleared = @ \cup Range(queueOf(qBefore, sessionId)),
                   ![sessionId].sent = <<>>,
                   ![sessionId].got = <<>>]

\* ------------------------------------------------------------ boundary server

\* An optional string (a header, a configured secret): undefined, or a string
\* written as the sequence of its characters.
Unset == [set |-> FALSE, value |-> <<>>]
Str(value) == [set |-> TRUE, value |-> value]

\* `!configuredSecret`: undefined or the empty string.
notConfigured(configuredSecret) == ~configuredSecret.set \/ configuredSecret.value = <<>>

\* A comparison that looks at the lengths only.
hasMatchingHeaderSecretByLength(provided, configuredSecret) ==
  IF notConfigured(configuredSecret) THEN TRUE
  ELSE provided.set /\ Len(provided.value) = Len(configuredSecret.value)

\* hasMatchingHeaderSecret(req, headerName, configuredSecret), given the value
\* of the header.
hasMatchingHeaderSecret(provided, configuredSecret) ==
  IF notConfigured(configuredSecret) THEN TRUE
  ELSE provided.set /\ provided.value = configuredSecret.value

hasValidAsteriskSecret(provided, configuredSecret) ==
  hasMatchingHeaderSecret(provided, configuredSecret)

hasValidControlSecret(provided, configuredSecret) ==
  hasMatchingHeaderSecret(provided, configuredSecret)

\* A value of a JSON payload field (or of a query parameter): absent, a
\* string or a number; the text is a sequence of characters, an enum word a
\* sequence of one word.
JsonAbsent == [kind |-> "undefined", value |-> <<>>]
JsonString(value) == [kind |-> "string", value |-> value]
JsonNumber(value) == [kind |-> "number", value |-> value]

isString(json) == json.kind = "string"
isNumber(json) == json.kind = "number"
isUndefined(json) == json.kind = "undefined"

\* A request body: malformed JSON, a JSON value that is no object, or an
\* object with some of the fields the routes read.
EmptyBody ==
  [json |-> "object", callId |-> JsonAbsent, from |-> JsonAbsent, to |-> JsonAbsent,
   sampleRateHz |-> JsonAbsent, encoding |-> JsonAbsent, payloadBase64 |-> JsonAbsent,
   sessionId |-> JsonAbsent, source |-> JsonAbsent, mode |-> JsonAbsent,
   sourceLanguage |-> JsonAbsent, targetLanguage |-> JsonAbsent, command |-> JsonAbsent]
MalformedBody == [EmptyBody EXCEPT !.json = "malformed"]
NullBody == [EmptyBody EXCEPT !.json = "null"]

\* `!payload || typeof payload !== "object"`
isObject(payload) == payload.json = "object"

\* readJsonBody: JSON.parse throws on a malformed body.
readJsonBodyThrows(body) == body.json = "malformed"

validateAsteriskInboundPayload(payload) ==
  /\ isObject(payload)
  /\ isString(payload.callId)
  /\ isString(payload.from)
  /\ isString(payload.to)

Encodings == {<<"pcm_s16le">>, <<"mulaw">>}

validateAsteriskMediaPayload(payload) ==
  /\ isObject(payload)
  /\ isString(payload.callId)
  /\ isNumber(payload.sampleRateHz)
  /\ isString(payload.encoding) /\ payload.encoding.value \in Encodings
  /\ isString(payload.payloadBase64)

\* validateAsteriskEndPayload: a callId or a sessionId.
validateAsteriskEndPayload(payload) ==
  /\ isObject(payload)
  /\ isString(payload.callId) \/ isString(payload.sessionId)

sourceOk(json) == isUndefined(json) \/ (isString(json) /\ json.value \in IngressSource)
modeOk(json) == isUndefined(json) \/ (isString(json) /\ json.value \in {<<m>> : m \in SessionMode})
languageOk(json) ==
  isUndefined(json) \/ (isString(json) /\ json.value \in {<<l>> : l \in LanguageCode})

validateSessionControlPayload(payload) ==
  LET hasLocator == isString(payload.sessionId) \/ isString(payload.callId)
      hasPatch == \/ ~isUndefined(payload.mode)
                  \/ ~isUndefined(payload.sourceLanguage)
                  \/ ~isUndefined(payload.targetLanguage)
  IN
  /\ isObject(payload)
  /\ hasLocator
  /\ hasPatch
  /\ sourceOk(payload.source)
  /\ modeOk(payload.mode)
  /\ languageOk(payload.sourceLanguage)
  /\ languageOk(payload.targetLanguage)

\* The text of a session id: the minted ids are written with one digit; any
\* other text names no session.
Digits == <<"1", "2", "3", "4", "5", "6", "7", "8", "9">>
UnknownSessionId == Len(Digits) + 1
sessionIdOf(text) ==
  IF \E n \in DOMAIN Digits : text = <<Digits[n]>>
  THEN CHOOSE n \in DOMAIN Digits : text = <<Digits[n]>>
  ELSE UnknownSessionId

\* `payload.source ?? "voipms"`
sourceOf(json) == IF isString(json) THEN json.value ELSE Voipms

\* A field of the control patch: "none" when the payload has none.
patchFieldOf(json) == IF isString(json) THEN json.value[1] ELSE "none"
patchOf(payload) ==
  [mode |-> patchFieldOf(payload.mode),
   sourceLanguage |-> patchFieldOf(payload.sourceLanguage),
   targetLanguage |-> patchFieldOf(payload.targetLanguage)]

\* No media WebSocket is connected.  A connection holds the `sessionId` (0:
\* undefined) and the `callSid` its handlers share.
NoSocket == [open |-> FALSE, sessionId |-> 0, callSid |-> Unset]

\* wireTwilioMediaSocket on a new connection: both are undefined.
Connected == [open |-> TRUE, sessionId |-> 0, callSid |-> Unset]

\* `!callSid`: the start message has no callSid, or an empty one.
noCallSid(callSid) == ~callSid.set \/ callSid.value = <<>>

\* A handler that forwards whatever media carries a payload.
forwardsMediaUnresolved(sessionId, callSid, hasPayload) == hasPayload

\* A media message becomes a frame unless `!sessionId || !callSid` or
\* `!media?.payload`.
forwardsMedia(sessionId, callSid, hasPayload) ==
  sessionId # 0 /\ ~noCallSid(callSid) /\ hasPayload

\* The AudioFrame a media message becomes.
mediaFrame(sessionId, timestampMs) ==
  [sessionId |-> sessionId, source |-> Twilio, sampleRateHz |-> 8000,
   encoding |-> "mulaw", timestampMs |-> timestampMs]

\* No request was received yet.
NoRequest ==
  [route |-> "none", header |-> Unset, body |-> EmptyBody, stage |-> "none", status |-> 0,
   stages |-> <<>>, count |-> 0]

\* ------------------------------------------------- the Twilio webhook gate

\* The characters of form keys, in the order of their UTF-16 code units, which
\* is the order Array.prototype.sort compares strings in.
CodeUnitOrder == <<"C", "S", "a", "b", "d", "i", "l">>
codeUnit(char) == CHOOSE i \in DOMAIN CodeUnitOrder : CodeUnitOrder[i] = char

RECURSIVE lessThan(_, _)
lessThan(left, right) ==
  IF left = <<>> THEN right # <<>>
  ELSE IF right = <<>> THEN FALSE
  ELSE IF left[1] = right[1] THEN lessThan(Tail(left), Tail(right))
  ELSE codeUnit(left[1]) < codeUnit(right[1])

\* A form body is a dictionary, written as the sequence of its <<key, value>>
\* entries in insertion order.
keysOf(formBody) == [i \in DOMAIN formBody |-> formBody[i][1]]
valueOf(formBody, key) ==
  formBody[CHOOSE i \in DOMAIN formBody : formBody[i][1] = key][2]
has(formBody, key) == \E i \in DOMAIN formBody : formBody[i][1] = key

RECURSIVE sort(_)
sort(keys) ==
  IF keys = {} THEN <<>>
  ELSE LET first == CHOOSE k \in keys : \A other \in keys \ {k} : lessThan(k, other)
       IN <<first>> \o sort(keys \ {first})

\* Object.keys(formBody) as they were inserted.
keysInInsertionOrder(formBody) == keysOf(formBody)

\* Object.keys(formBody).sort()
sortedKeys(formBody) == sort({formBody[i][1] : i \in DOMAIN formBody})

\* `payload += key + formBody[key]` for the keys in turn.
RECURSIVE appendPairs(_, _, _)
appendPairs(payload, formBody, keys) ==
  IF keys = <<>> THEN payload
  ELSE appendPairs(payload \o Head(keys) \o valueOf(formBody, Head(keys)), formBody,
                   Tail(keys))

\* createHmac("sha1", key).update(message).digest("base64"): the digest is
\* determined by the key and the message, and two digests are taken to be
\* equal only when both are.
hmacSha1Base64(key, message) == [key |-> key, message |-> message]

computeTwilioSignature(url, formBody, authToken) ==
  hmacSha1Base64(authToken, appendPairs(url, formBody, sortedKeys(formBody)))

\* `publicBaseUrl.replace(/\/$/, "")`
withoutTrailingSlash(text) ==
  IF text # <<>> /\ text[Len(text)] = "/" THEN SubSeq(text, 1, Len(text) - 1) ELSE text

buildPublicUrl(requestPath, baseUrl, host) ==
  IF ~notConfigured(baseUrl) THEN withoutTrailingSlash(baseUrl.value) \o requestPath
  ELSE <<"http://">> \o (IF host.set THEN host.value ELSE <<"localhost">>) \o requestPath

\* safeEqual: same length and same bytes.
safeEqual(left, right) == left = right

hasValidTwilioSignature(signature, requestPath, host, formBody, authToken, baseUrl) ==
  IF notConfigured(authToken) THEN TRUE
  ELSE IF ~signature.set THEN FALSE
  ELSE safeEqual(signature.value,
                 computeTwilioSignature(buildPublicUrl(requestPath, baseUrl, host), formBody,
                                        authToken.value))

CallSid == <<"C", "a", "l", "l", "S", "i", "d">>
UnknownCallSid == <<"unknown">>

\* parseTwilioIncoming: `body.CallSid ?? "unknown"`
parseTwilioIncoming(formBody) ==
  IF has(formBody, CallSid) THEN valueOf(formBody, CallSid) ELSE UnknownCallSid

\* ------------------------------------------------------------ OpenClawBridge

\* The attempts one envelope gets when the option is not given.
DefaultMaxAttempts == 4

\* A SessionEvent as the bridge receives it.  The payload is a dictionary,
\* written as the sequence of its <<key, value>> entries in insertion order.
BridgeEvent(type, sessionId, atMs, payload) ==
  [type |-> type, sessionId |-> sessionId, atMs |-> atMs, payload |-> payload]

\* The entries of a dictionary, whatever their order.
entriesOf(payload) == {payload[i] : i \in DOMAIN payload}

\* Two events are equal when their fields are and their payloads hold the
\* same entries.
equalEvents(e, f) ==
  /\ e.type = f.type
  /\ e.sessionId = f.sessionId
  /\ e.atMs = f.atMs
  /\ entriesOf(e.payload) = entriesOf(f.payload)

\* A hash of the payload as it is written, entry after entry.
hashInInsertionOrder(payload) == payload

\* stable-hash(payload): a hash of the entries that does not depend on the
\* order they were inserted in.
stableHash(payload) == entriesOf(payload)

\* The idempotency key of a session event: derived from the event alone.
sessionEventKey(event) ==
  <<"evt", event.type, event.sessionId, event.atMs, stableHash(event.payload)>>

\* The idempotency key of a command: generated afresh for each invocation.
commandKey(key) == <<"cmd", key>>

\* The prefix that tells the two kinds of key apart.
keyPrefix(idempotencyKey) == idempotencyKey[1]

\* An envelope; `ordinal` is its position among the envelopes ever enqueued.
Envelope(type, idempotencyKey, body, ordinal) ==
  [type |-> type, idempotencyKey |-> idempotencyKey, body |-> body, ordinal |-> ordinal]

\* A POST whose answer is awaited before its caller goes on.
PostAwaited(envelope, attempt) ==
  [ordinal |-> envelope.ordinal, idempotencyKey |-> envelope.idempotencyKey,
   type |-> envelope.type, attempt |-> attempt, outcome |-> "delivered",
   timer |-> "cleared"]

\* One POST of an envelope: the attempt's number and what came of it,
\* "pending" until then, "delivered" or "failed" afterwards, and the timer
\* that aborts it after timeoutMs, "set" when the POST is issued.
Post(envelope, attempt) ==
  [ordinal |-> envelope.ordinal, idempotencyKey |-> envelope.idempotencyKey,
   type |-> envelope.type, attempt |-> attempt, outcome |-> "pending",
   timer |-> "set"]

\* What an attempt can come to: a 2xx answer, another answer, a timeout or an
\* unreachable endpoint.
PostStatuses == {"200", "500", "timeout", "unreachable"}

\* An attempt delivered the envelope when the endpoint answered 2xx.
delivered(status) == status = "200"

\* A request that clears its timer only when the fetch resolved.
timerAfterResolved(status) == IF status \in {"200", "500"} THEN "cleared" ELSE "set"

\* The timer of a request once its fetch resolved, was aborted or failed:
\* clearTimeout is in the finally block.
timerAfter(status) == "cleared"

\* The endpoint the bridge is configured with.
EndpointUrl == [origin |-> <<"h">>, path |-> <<"e", "v">>]

\* The URL the health probe GETs: the endpoint's origin, path /health.
healthUrl(endpointUrl) == [origin |-> endpointUrl.origin, path |-> <<"health">>]

\* The probe's result: true for a 2xx answer, false for any other answer, a
\* timeout or an unreachable endpoint.
healthy(status) == status = "200"

\* An enqueue that starts a drain loop whatever the flag says.
startsDrainAlways(flag) == TRUE

\* An enqueue starts a drain loop only when none is running.
startsDrain(flag) == ~flag

\* A bridge that gives up only after one attempt more than the bound.
exhaustedLate(attempt, bound) == attempt > bound

\* The attempts of an envelope are exhausted once maxAttempts were made.
exhausted(attempt, bound) == attempt >= bound

\* A bridge that mints a new key for every attempt.
attemptKeyFresh(envelope, attempt) == <<keyPrefix(envelope.idempotencyKey), attempt>>

\* The idempotency-key header of an attempt: the envelope's key.
attemptKey(envelope, attempt) == envelope.idempotencyKey

\* A queue that takes a new envelope at its front.
unshift(queue, envelope) == <<envelope>> \o queue

\* A new envelope joins the queue at its end.
push(queue, envelope) == Append(queue, envelope)

\* The envelope the drain loop serves: the oldest one.
nextEnvelope(queue) == Head(queue)

\* The POSTs that were answered, timed out or failed so far.
answeredPosts(log) == {i \in DOMAIN log : log[i].outcome # "pending"}

\* POST /openclaw/command: 403 without the control secret, 400 for an invalid
\* payload, 503 without a bridge, 202 once sendCommand returned.
commandStatus(authorized, valid, configured) ==
  IF ~authorized THEN 403
  ELSE IF ~valid THEN 400
  ELSE IF ~configured THEN 503
  ELSE 202

\* String.prototype.trim on a sequence of characters.
RECURSIVE trim(_)
trim(text) ==
  IF text = <<>> THEN text
  ELSE IF Head(text) = " " THEN trim(Tail(text))
  ELSE IF text[Len(text)] = " " THEN trim(SubSeq(text, 1, Len(text) - 1))
  ELSE text

\* validateOpenClawCommandPayload, for a payload whose command is a string.
validateOpenClawCommandPayload(command) == Len(trim(command)) > 0

\* A drain loop that awaits the answer to attempt number `attempt` for the
\* envelope of that ordinal; `post` is the position of the POST in the log.
Posting(ordinal, attempt, post) ==
  [pc |-> "posting", ordinal |-> ordinal, attempt |-> attempt, post |-> post]

\* The retry policy's waits: the first, and the cap.
BackoffStartMs == 250
BackoffCapMs == 2000

\* A backoff that doubles without a cap.
backoffMsUncapped(retry) == BackoffStartMs * 2 ^ (retry - 1)

\* The wait before retry number `retry` of an envelope: it starts at
\* BackoffStartMs and doubles from one retry to the next up to BackoffCapMs.
RECURSIVE backoffMs(_)
backoffMs(retry) ==
  IF retry <= 1 THEN BackoffStartMs
  ELSE LET doubled == 2 * backoffMs(retry - 1) IN
       IF doubled > BackoffCapMs THEN BackoffCapMs ELSE doubled

\* A drain loop that waits before the next attempt for that envelope: retry
\* number `attempt` follows the failed attempt of that number.
Backoff(ordinal, attempt) ==
  [pc |-> "backoff", ordinal |-> ordinal, attempt |-> attempt, post |-> 0,
   waitMs |-> backoffMs(attempt)]


\* The sequence without its i-th element.
RemoveAt(s, i) == SubSeq(s, 1, i - 1) \o SubSeq(s, i + 1, Len(s))

\* The sequence without the envelope of that ordinal.
WithoutOrdinal(queue, ordinal) ==
  SelectSeq(queue, LAMBDA e : e.ordinal # ordinal)

\* ------------------------------------------------------------------- Init

\* The state after construction, for a configuration drawn from the given
\* sets: deps.minFrameIntervalMs, the EgressStore bound, whether the event hook
\* is set, the bridge's maxAttempts, the two shared secrets and the webhook
\* auth token.
InitServer(intervals, queueBounds, hooks, attemptBounds, asteriskSecrets, controlSecrets, authTokens, publicBaseUrls) ==
  /\ sessions = EmptyMap
  /\ externalToInternal = EmptyMap
  /\ nextId = 1
  /\ metrics = EmptyMap
  /\ lastFrameAtMs = EmptyMap
  /\ minFrameIntervalMs \in intervals
  /\ inflight = {}
  /\ queues = EmptyMap
  /\ maxQueuePerSession \in queueBounds
  /\ ret = [op |-> "none"]
  /\ handshakes = EmptyMap
  /\ sttLog = EmptyMap
  /\ frameLog = EmptyMap
  /\ frameCount = 0
  /\ chunkCount = 0
  /\ egressLog = EmptyMap
  /\ hasOnSessionEvent \in hooks
  /\ emitted = <<>>
  /\ maxAttempts \in attemptBounds
  /\ bridgeQueue = <<>>
  /\ draining = FALSE
  /\ drainLoops = <<>>
  /\ nextKey = 1
  /\ enqueued = <<>>
  /\ posts = <<>>
  /\ asteriskSharedSecret \in asteriskSecrets
  /\ controlApiSecret \in controlSecrets
  /\ twilioAuthToken \in authTokens
  /\ publicBaseUrl \in publicBaseUrls
  /\ request = NoRequest
  /\ socket = NoSocket

\* A gateway with no secret and no auth token configured.
InitGateway(intervals, queueBounds, hooks, attemptBounds) ==
  InitServer(intervals, queueBounds, hooks, attemptBounds, {Unset}, {Unset}, {Unset},
             {Unset})

\* A gateway whose bridge, if any, keeps the default maxAttempts.
InitState(intervals, queueBounds, hooks) ==
  InitGateway(intervals, queueBounds, hooks, {DefaultMaxAttempts})

\* A gateway without an event bridge: deps.onSessionEvent is not set.
InitWith(intervals, queueBounds) == InitState(intervals, queueBounds, {FALSE})

\* Any configuration: the interval unset, 0 or positive; the bound at least 1.
Init == InitWith({Undefined} \cup (0..MaxInterval), 1..MaxQueueBound)

\* The session lifecycle reads neither setting.
InitSessions == InitWith({Undefined}, {1})

\* ------------------------------------------------- actions: session lifecycle

\* VoiceOrchestrator.onIncomingCall(event)
OnIncomingCallEvent(source, externalCallId, from, receivedAtMs) ==
  LET existing == getByExternal(externalToInternal, sessions, source, externalCallId)
      pair == <<source, externalCallId>>
      answered == IF existing.id # 0 THEN existing.id ELSE nextId
  IN
  /\ IF existing.id # 0
     THEN /\ sessions' = onDuplicateCall(sessions, existing)
          /\ UNCHANGED <<externalToInternal, nextId, emitted>>
     ELSE /\ nextId <= MaxSessions
          /\ sessions' = createdFrom(onNewCall(sessions, nextId, source), nextId, from,
                                     receivedAtMs)
          /\ externalToInternal' =
               createFromIncomingIndex(externalToInternal, nextId, source, externalCallId)
          /\ nextId' = nextId + 1
          /\ emitted' = emitEvent(emitted, hasOnSessionEvent,
                                  SessionEvent("session.started", nextId, 0))
  /\ ret' = [op |-> "onIncomingCall", source |-> source,
             externalCallId |-> externalCallId, sessionId |-> answered,
             duplicate |-> (existing.id # 0)]
  /\ handshakes' = IF pair \in DOMAIN handshakes THEN handshakes
                   ELSE MapSet(handshakes, pair, answered)
  /\ UNCHANGED <<orchVars, egressVars, configVars, bridgeVars, httpVars>>
  /\ UNCHANGED <<sttLog, frameLog, frameCount, chunkCount, egressLog>>

\* The caller and the arrival time of a handshake where neither is told apart.
AnyCaller == <<"+", "1", "5", "5", "5", "0", "0", "0", "1">>
OnIncomingCall(source, externalCallId) ==
  OnIncomingCallEvent(source, externalCallId, AnyCaller, 0)

\* POST /twilio/voice: handleTwilioInbound
TwilioVoice(callSid) == OnIncomingCall(Twilio, callSid)

\* POST /asterisk/inbound: handleAsteriskInbound
AsteriskInbound(callId) == OnIncomingCall(Voipms, callId)

\* VoiceOrchestrator.endSession(sessionId), as the media stream's stop and
\* close handlers call it for the session their start message resolved.
MediaStreamStop(sessionId) ==
  /\ sessionId \in DOMAIN sessions
  /\ sessions[sessionId].source = Twilio
  /\ sessions' = endSessionSessions(sessions, sessionId)
  /\ emitted' = emitEvent(emitted, hasOnSessionEvent,
                          SessionEvent("session.ended", sessionId, 0))
  /\ ret' = [op |-> "endSession", sessionId |-> sessionId, status |-> 200]
  /\ UNCHANGED <<externalToInternal, nextId, orchVars, egressVars, configVars, bridgeVars, httpVars>>
  /\ UNCHANGED <<handshakes, sttLog, frameLog, frameCount, chunkCount, egressLog>>

\* POST /asterisk/end with {callId, source}: resolve, endSession, clear.
AsteriskEnd(source, callId) ==
  LET sessionId == resolveSessionIdByExternal(externalToInternal, sessions, source, callId) IN
  /\ IF sessionId = 0
     THEN /\ ret' = [op |-> "endSession", sessionId |-> 0, status |-> 404]
          /\ UNCHANGED <<sessions, queues, egressLog, emitted>>
     ELSE /\ sessions' = endSessionSessions(sessions, sessionId)
          /\ emitted' = emitEvent(emitted, hasOnSessionEvent,
                                  SessionEvent("session.ended", sessionId, 0))
          /\ queues' = clear(queues, sessionId)
          /\ egressLog' = logClear(egressLog, queues, sessionId)
          /\ ret' = [op |-> "endSession", sessionId |-> sessionId, status |-> 200]
  /\ UNCHANGED <<externalToInternal, nextId, orchVars, configVars, bridgeVars, httpVars>>
  /\ UNCHANGED <<handshakes, sttLog, frameLog, frameCount, chunkCount>>

\* updateSessionControl goes on to log and emit only when updateControl
\* answered a session: `if (!session) return undefined`.
emitsControlUpdatedAlways(sess, sessionId) == TRUE
emitsControlUpdated(sess, sessionId) == updateControlAllowed(sess, sessionId)

\* An event that carries the mode and languages a session is created with.
controlUpdatedStale(session) ==
  [type |-> "session.control.updated", sessionId |-> session.id, n |-> 0,
   payload |-> [mode |-> "private_translation", sourceLanguage |-> "es",
                targetLanguage |-> "en"]]

\* The session.control.updated event of updateSessionControl: its payload is
\* mode and languages of the session the store returned.
controlUpdated(session) ==
  [type |-> "session.control.updated", sessionId |-> session.id, n |-> 0,
   payload |-> [mode |-> session.mode, sourceLanguage |-> session.sourceLanguage,
                targetLanguage |-> session.targetLanguage]]

\* POST /sessions/control with {sessionId, mode}: updateSessionControl.
SessionControl(sessionId, patch) ==
  /\ sessions' = updateControl(sessions, sessionId, patch)
  /\ emitted' = IF emitsControlUpdated(sessions, sessionId)
                THEN emitEvent(emitted, hasOnSessionEvent,
                               controlUpdated(get(updateControl(sessions, sessionId, patch),
                                                  sessionId)))
                ELSE emitted
  /\ ret' = [op |-> "updateSessionControl", sessionId |-> sessionId,
             status |-> IF updateControlAllowed(sessions, sessionId) THEN 200 ELSE 404]
  /\ UNCHANGED <<externalToInternal, nextId, orchVars, egressVars, configVars, bridgeVars, httpVars>>
  /\ UNCHANGED <<handshakes, sttLog, frameLog, frameCount, chunkCount, egressLog>>

\* ------------------------------------------------ actions: the Egress Store

\* The onTtsChunk callback the gateway wires: enqueue, then report the
\* answer to the orchestrator.
OnTtsChunk(chunk) ==
  LET answer == enqueueResult(queues, chunk, maxQueuePerSession) IN
  /\ queues' = enqueue(queues, chunk, maxQueuePerSession)
  /\ metrics' = reportEgressStats(metrics, chunk.sessionId, answer.queueSize,
                                  answer.droppedOldest)
  /\ egressLog' = logEnqueue(egressLog, queues, queues', chunk, maxQueuePerSession)
  /\ chunkCount' = chunkCount + 1

\* The callback invoked with a synthesized chunk for a session.
TtsChunkDelivered(sessionId) ==
  LET chunk == TtsChunk(sessionId, chunkCount + 1) IN
  /\ chunkCount < MaxChunks
  /\ OnTtsChunk(chunk)
  /\ ret' = [op |-> "onTtsChunk", sessionId |-> sessionId, chunk |-> chunk,
             sizeBefore |-> size(queues, sessionId),
             answer |-> enqueueResult(queues, chunk, maxQueuePerSession)]
  /\ UNCHANGED <<storeVars, lastFrameAtMs, inflight, configVars, bridgeVars, httpVars>>
  /\ UNCHANGED <<handshakes, sttLog, frameLog, frameCount, emitted>>

\* GET /asterisk/egress/next once the session id is known: dequeue, then
\* 204 or 200 with the chunk and the remaining queue size.
EgressPoll(sessionId) ==
  LET next == dequeueResult(queues, sessionId) IN
  /\ queues' = dequeue(queues, sessionId)
  /\ egressLog' = logDequeue(egressLog, sessionId, next)
  /\ ret' = [op |-> "egressNext", sessionId |-> sessionId,
             status |-> IF next = NoChunk THEN 204 ELSE 200,
             chunk |-> next,
             remainingQueue |-> size(queues', sessionId)]
  /\ UNCHANGED <<storeVars, orchVars, configVars, bridgeVars, httpVars>>
  /\ UNCHANGED <<handshakes, sttLog, frameLog, frameCount, chunkCount, emitted>>

\* GET /asterisk/egress/next?sessionId=...
EgressNextBySession(sessionId) == EgressPoll(sessionId)

\* GET /asterisk/egress/next?callId=...&source=...
EgressNextByCall(source, callId) ==
  LET sessionId == resolveSessionIdByExternal(externalToInternal, sessions, source, callId) IN
  IF sessionId = 0
  THEN /\ ret' = [op |-> "egressNext", sessionId |-> 0, status |-> 404,
                  chunk |-> NoChunk, remainingQueue |-> 0]
       /\ UNCHANGED <<storeVars, orchVars, egressVars, configVars, bridgeVars, httpVars>>
       /\ UNCHANGED <<handshakes, sttLog, frameLog, frameCount, chunkCount, egressLog, emitted>>
  ELSE EgressPoll(sessionId)

\* egressStore.clear(sessionId), as POST /asterisk/end calls it.
EgressClear(sessionId) ==
  /\ queues' = clear(queues, sessionId)
  /\ egressLog' = logClear(egressLog, queues, sessionId)
  /\ ret' = [op |-> "clear", sessionId |-> sessionId]
  /\ UNCHANGED <<storeVars, orchVars, configVars, bridgeVars, httpVars>>
  /\ UNCHANGED <<handshakes, sttLog, frameLog, frameCount, chunkCount, emitted>>

\* ------------------------------------------------- actions: the frame pipeline

\* The rate limiter's test on a frame's timestamp.
rateLimitedReversed(last, minInterval, sessionId, timestampMs) ==
  /\ sessionId \in DOMAIN last
  /\ last[sessionId] - timestampMs < Coalesce(minInterval, 0)
\* A limiter that measures the first frame of a session from time 0.
rateLimitedFromZero(last, minInterval, sessionId, timestampMs) ==
  timestampMs - (IF sessionId \in DOMAIN last THEN last[sessionId] ELSE 0)
    < Coalesce(minInterval, 0)

rateLimited(last, minInterval, sessionId, timestampMs) ==
  LET min == Coalesce(minInterval, 0)
      previousFrameTs == IF sessionId \in DOMAIN last THEN last[sessionId] ELSE Undefined
  IN previousFrameTs # Undefined /\ timestampMs - previousFrameTs < min

logAppend(log, sessionId, x) ==
  MapSet(log, sessionId, Append(IF sessionId \in DOMAIN log THEN log[sessionId] ELSE <<>>, x))

\* A frame suspended at an await: its number, session and stage, the
\* latencies measured so far, and what onAudioFrame has handed to its
\* collaborators for it so far (events to the hook, calls to the providers
\* and to onTtsChunk), in order.
Suspended(n, sessionId, pc, stt, mt, tts, steps) ==
  [n |-> n, sessionId |-> sessionId, pc |-> pc, sttLatencyMs |-> stt,
   translationLatencyMs |-> mt, ttsLatencyMs |-> tts, steps |-> steps]

\* What onAudioFrame does between two awaits, in the order of its statements.
stepsAfterSttReordered(hook) ==
  <<"translate">> \o (IF hook THEN <<"session.transcript">> ELSE <<>>)
stepsAfterStt(hook) ==
  (IF hook THEN <<"session.transcript">> ELSE <<>>) \o <<"translate">>
stepsAfterMt(hook) ==
  (IF hook THEN <<"session.translation">> ELSE <<>>) \o <<"synthesize">>
stepsAfterTts == <<"onTtsChunk">>

\* A provider call or the onTtsChunk callback that throws (or rejects): the
\* awaits of onAudioFrame are in no try block, so onAudioFrame rejects.
rejects(result) == result = "throw"

\* onAudioFrame(frame) up to its first await: the guards, then stt.transcribe
\* is called.
OnAudioFrame(sessionId, timestampMs) ==
  LET session == get(sessions, sessionId)
      outcome ==
        IF session.id = 0 THEN "unknown_session"
        ELSE IF session.mode = "passthrough" THEN "passthrough"
        ELSE IF rateLimited(lastFrameAtMs, minFrameIntervalMs, sessionId, timestampMs)
             THEN "dropped"
        ELSE "stt"
  IN
  /\ frameCount' = frameCount + 1
  /\ ret' = [op |-> "onAudioFrame", sessionId |-> sessionId,
             timestampMs |-> timestampMs, outcome |-> outcome]
  /\ frameLog' = IF session.id # 0 /\ session.mode = "private_translation"
                 THEN logAppend(frameLog, sessionId, timestampMs) ELSE frameLog
  /\ IF outcome = "unknown_session"
       THEN UNCHANGED <<metrics, lastFrameAtMs, inflight, sttLog>>
     ELSE IF outcome = "passthrough"
       THEN /\ metrics' = incrementPassthroughFrames(metrics, sessionId)
            /\ UNCHANGED <<lastFrameAtMs, inflight, sttLog>>
     ELSE IF outcome = "dropped"
       THEN /\ metrics' = markFrameDropped(metrics, sessionId)
            /\ UNCHANGED <<lastFrameAtMs, inflight, sttLog>>
     ELSE /\ lastFrameAtMs' = MapSet(lastFrameAtMs, sessionId, timestampMs)
          /\ sttLog' = logAppend(sttLog, sessionId, timestampMs)
          /\ inflight' = inflight \cup
               {Suspended(frameCount + 1, sessionId, "stt", Undefined, Undefined, Undefined,
                          <<"transcribe">>)}
          /\ UNCHANGED metrics
  /\ UNCHANGED <<storeVars, egressVars, configVars, bridgeVars, httpVars>>
  /\ UNCHANGED <<handshakes, chunkCount, egressLog, emitted>>

\* A test that misses whitespace-only text.
noTranscriptUntrimmed(result) == result = "null"

\* `!transcript || !transcript.text.trim()`
noTranscript(result) == result \in {"null", "blank"}

\* stt.transcribe answers: null, whitespace-only text ("blank") or a text,
\* or throws.
SttReturns(f, result, latency) ==
  /\ f \in inflight
  /\ f.pc = "stt"
  /\ IF rejects(result)
     THEN /\ inflight' = inflight \ {f}
          /\ UNCHANGED <<metrics, emitted>>
     ELSE IF noTranscript(result)
     THEN /\ metrics' = trackMetrics(metrics, f.sessionId, latency, Undefined, Undefined,
                                     Undefined)
          /\ inflight' = inflight \ {f}
          /\ UNCHANGED emitted
     ELSE /\ emitted' = emitEvent(emitted, hasOnSessionEvent,
                                  SessionEvent("session.transcript", f.sessionId, f.n))
          /\ inflight' = (inflight \ {f}) \cup
               {Suspended(f.n, f.sessionId, "mt", latency, Undefined, Undefined,
                          f.steps \o stepsAfterStt(hasOnSessionEvent))}
          /\ UNCHANGED metrics
  /\ ret' = [op |-> "stt", n |-> f.n, sessionId |-> f.sessionId, result |-> result,
             rejected |-> rejects(result),
             steps |-> IF rejects(result) \/ noTranscript(result) THEN f.steps
                       ELSE f.steps \o stepsAfterStt(hasOnSessionEvent)]
  /\ UNCHANGED <<storeVars, lastFrameAtMs, egressVars, configVars, bridgeVars, httpVars>>
  /\ UNCHANGED <<handshakes, sttLog, frameLog, frameCount, chunkCount, egressLog>>

\* translator.translate answers: null or a translation, or throws.
MtReturns(f, result, latency) ==
  /\ f \in inflight
  /\ f.pc = "mt"
  /\ IF rejects(result)
     THEN /\ inflight' = inflight \ {f}
          /\ UNCHANGED <<metrics, emitted>>
     ELSE IF result = "null"
     THEN /\ metrics' = trackMetrics(metrics, f.sessionId, f.sttLatencyMs, latency,
                                     Undefined, Undefined)
          /\ inflight' = inflight \ {f}
          /\ UNCHANGED emitted
     ELSE /\ emitted' = emitEvent(emitted, hasOnSessionEvent,
                                  SessionEvent("session.translation", f.sessionId, f.n))
          /\ inflight' = (inflight \ {f}) \cup
               {Suspended(f.n, f.sessionId, "tts", f.sttLatencyMs, latency, Undefined,
                          f.steps \o stepsAfterMt(hasOnSessionEvent))}
          /\ UNCHANGED metrics
  /\ ret' = [op |-> "mt", n |-> f.n, sessionId |-> f.sessionId, result |-> result,
             rejected |-> rejects(result),
             steps |-> IF result = "text" THEN f.steps \o stepsAfterMt(hasOnSessionEvent)
                       ELSE f.steps]
  /\ UNCHANGED <<storeVars, lastFrameAtMs, egressVars, configVars, bridgeVars, httpVars>>
  /\ UNCHANGED <<handshakes, sttLog, frameLog, frameCount, chunkCount, egressLog>>

pipelineLatencyWithoutTts(stt, mt, tts) == stt + mt
pipelineLatencyMs(stt, mt, tts) == stt + mt + tts

\* The end of onAudioFrame: trackMetrics with all four latencies, then
\* incrementMetric("translatedChunks").
finishMetrics(m, sessionId, stt, mt, tts) ==
  incrementTranslatedChunks(
    trackMetrics(m, sessionId, stt, mt, tts, pipelineLatencyMs(stt, mt, tts)), sessionId)

\* Whether the TTS answer is handed to onTtsChunk: `tts && this.deps.onTtsChunk`.
invokesOnTtsChunk(result) == result # "null"

\* tts.synthesize answers: null or a chunk, or throws.  A chunk goes to
\* onTtsChunk and the frame awaits the callback; without one the frame
\* finishes at once.
TtsReturns(f, result, latency) ==
  /\ f \in inflight
  /\ f.pc = "tts"
  /\ IF rejects(result)
     THEN /\ inflight' = inflight \ {f}
          /\ UNCHANGED <<metrics, queues, egressLog, chunkCount>>
     ELSE IF invokesOnTtsChunk(result)
     THEN /\ chunkCount < MaxChunks
          /\ OnTtsChunk(TtsChunk(f.sessionId, chunkCount + 1))
          /\ inflight' = (inflight \ {f}) \cup
               {Suspended(f.n, f.sessionId, "callback", f.sttLatencyMs,
                          f.translationLatencyMs, latency, f.steps \o stepsAfterTts)}
     ELSE /\ metrics' = finishMetrics(metrics, f.sessionId, f.sttLatencyMs,
                                      f.translationLatencyMs, latency)
          /\ inflight' = inflight \ {f}
          /\ UNCHANGED <<queues, egressLog, chunkCount>>
  /\ ret' = [op |-> "tts", n |-> f.n, sessionId |-> f.sessionId, result |-> result,
             rejected |-> rejects(result),
             steps |-> IF result = "chunk" THEN f.steps \o stepsAfterTts ELSE f.steps]
  /\ UNCHANGED <<storeVars, lastFrameAtMs, configVars, bridgeVars, httpVars>>
  /\ UNCHANGED <<handshakes, sttLog, frameLog, frameCount, emitted>>

\* onAudioFrame resumes after `await onTtsChunk(tts)`.
FrameFinishes(f) ==
  /\ f \in inflight
  /\ f.pc = "callback"
  /\ metrics' = finishMetrics(metrics, f.sessionId, f.sttLatencyMs,
                              f.translationLatencyMs, f.ttsLatencyMs)
  /\ inflight' = inflight \ {f}
  /\ ret' = [op |-> "finish", n |-> f.n, sessionId |-> f.sessionId, rejected |-> FALSE,
             steps |-> f.steps]
  /\ UNCHANGED <<storeVars, lastFrameAtMs, egressVars, configVars, bridgeVars, httpVars>>
  /\ UNCHANGED <<handshakes, sttLog, frameLog, frameCount, chunkCount, egressLog, emitted>>

\* ------------------------------------------------ actions: the event bridge

\* enqueue(envelope): the envelope joins the queue; when no drain loop runs
\* one is started, and it runs up to its first await, the POST of the
\* envelope it serves.
Enqueue(envelope) ==
  LET queue == push(bridgeQueue, envelope) IN
  /\ bridgeQueue' = queue
  /\ enqueued' = Append(enqueued, envelope)
  /\ IF startsDrain(draining)
     THEN LET served == nextEnvelope(queue) IN
          /\ draining' = TRUE
          /\ posts' = Append(posts, [Post(served, 1) EXCEPT
                                       !.idempotencyKey = attemptKey(served, 1)])
          /\ drainLoops' = Append(drainLoops, Posting(served.ordinal, 1, Len(posts) + 1))
     ELSE UNCHANGED <<draining, posts, drainLoops>>

\* The hook of index.ts: the orchestrator hands the event to
\* bridge.publishSessionEvent, which enqueues its envelope and returns.
PublishSessionEvent(event) ==
  /\ hasOnSessionEvent
  /\ emitted' = emitEvent(emitted, hasOnSessionEvent, event)
  /\ Enqueue(Envelope("session_event", sessionEventKey(event), event,
                      Len(enqueued) + 1))
  /\ ret' = [op |-> "publishSessionEvent", rejected |-> FALSE,
             ordinal |-> Len(enqueued) + 1, answered |-> answeredPosts(posts)]
  /\ UNCHANGED <<storeVars, orchVars, egressVars, configVars>>
  /\ UNCHANGED <<handshakes, sttLog, frameLog, frameCount, chunkCount, egressLog>>
  /\ UNCHANGED <<maxAttempts, nextKey>>
  /\ UNCHANGED httpVars

\* POST /openclaw/command
OpenClawCommand(authorized, command) ==
  LET status == commandStatus(authorized, validateOpenClawCommandPayload(command),
                              hasOnSessionEvent) IN
  /\ IF status = 202
     THEN /\ Enqueue(Envelope("command", commandKey(nextKey), command,
                              Len(enqueued) + 1))
          /\ nextKey' = nextKey + 1
     ELSE UNCHANGED <<bridgeQueue, enqueued, draining, posts, drainLoops, nextKey>>
  /\ ret' = [op |-> "sendCommand", rejected |-> FALSE, status |-> status,
             authorized |-> authorized, command |-> command,
             ordinal |-> Len(enqueued) + 1, answered |-> answeredPosts(posts)]
  /\ UNCHANGED <<storeVars, orchVars, egressVars, configVars>>
  /\ UNCHANGED <<handshakes, sttLog, frameLog, frameCount, chunkCount, egressLog, emitted>>
  /\ UNCHANGED maxAttempts
  /\ UNCHANGED httpVars

\* The POST of drain loop i is answered, times out or fails.  A delivered
\* envelope, and one whose attempts are exhausted, leaves the queue and the
\* loop goes on to the next envelope, or ends when the queue is empty;
\* otherwise the loop waits for its backoff.
PostAnswers(i, status) ==
  LET loop == drainLoops[i]
      answered == [posts EXCEPT ![loop.post].outcome =
                                  IF delivered(status) THEN "delivered" ELSE "failed",
                                ![loop.post].timer = timerAfter(status)]
      served == loop.ordinal
      rest == WithoutOrdinal(bridgeQueue, served)
  IN
  /\ loop.pc = "posting"
  /\ IF delivered(status) \/ exhausted(loop.attempt, maxAttempts)
     THEN /\ bridgeQueue' = rest
          /\ IF rest = <<>>
             THEN /\ drainLoops' = RemoveAt(drainLoops, i)
                  /\ draining' = FALSE
                  /\ posts' = answered
             ELSE LET next == nextEnvelope(rest) IN
                  /\ drainLoops' = [drainLoops EXCEPT
                                      ![i] = Posting(next.ordinal, 1, Len(posts) + 1)]
                  /\ posts' = Append(answered, [Post(next, 1) EXCEPT
                                                  !.idempotencyKey = attemptKey(next, 1)])
                  /\ UNCHANGED draining
     ELSE /\ drainLoops' = [drainLoops EXCEPT ![i] = Backoff(served, loop.attempt)]
          /\ posts' = answered
          /\ UNCHANGED <<bridgeQueue, draining>>
  /\ ret' = [op |-> "post", status |-> status, ordinal |-> served,
             attempt |-> loop.attempt,
             outcome |-> IF delivered(status) THEN "delivered"
                         ELSE IF exhausted(loop.attempt, maxAttempts) THEN "dropped"
                         ELSE "retry"]
  /\ UNCHANGED <<storeVars, orchVars, egressVars, configVars>>
  /\ UNCHANGED <<handshakes, sttLog, frameLog, frameCount, chunkCount, egressLog, emitted>>
  /\ UNCHANGED <<maxAttempts, nextKey, enqueued>>
  /\ UNCHANGED httpVars

\* The backoff of drain loop i is over: the envelope at the head of the
\* queue, the one that failed, is POSTed again.
BackoffElapses(i) ==
  LET loop == drainLoops[i]
      served == nextEnvelope(bridgeQueue)
  IN
  /\ loop.pc = "backoff"
  /\ posts' = Append(posts, [Post(served, loop.attempt + 1) EXCEPT
                               !.idempotencyKey = attemptKey(served, loop.attempt + 1)])
  /\ drainLoops' = [drainLoops EXCEPT
                      ![i] = Posting(served.ordinal, loop.attempt + 1, Len(posts) + 1)]
  /\ ret' = [op |-> "backoff", ordinal |-> served.ordinal, attempt |-> loop.attempt + 1]
  /\ UNCHANGED <<storeVars, orchVars, egressVars, configVars>>
  /\ UNCHANGED <<handshakes, sttLog, frameLog, frameCount, chunkCount, egressLog, emitted>>
  /\ UNCHANGED <<maxAttempts, bridgeQueue, draining, nextKey, enqueued>>
  /\ UNCHANGED httpVars

\* bridge.healthCheck(): a GET of the health URL under the request timeout;
\* it resolves to a boolean whatever came of the request.
HealthCheck(status) ==
  /\ hasOnSessionEvent
  /\ ret' = [op |-> "healthCheck", url |-> healthUrl(EndpointUrl), method |-> "GET",
             status |-> status, threw |-> FALSE, result |-> healthy(status),
             timer |-> timerAfter(status)]
  /\ UNCHANGED <<storeVars, orchVars, egressVars, configVars>>
  /\ UNCHANGED <<handshakes, sttLog, frameLog, frameCount, chunkCount, egressLog, emitted>>
  /\ UNCHANGED bridgeVars
  /\ UNCHANGED httpVars

\* ----------------------------------------------- actions: the boundary server

SecretRoutes ==
  {"/asterisk/inbound", "/asterisk/media", "/asterisk/end", "/asterisk/egress/next",
   "/sessions/control", "/openclaw/command"}

\* The secret a route compares its header with.
routeSecret(route) ==
  IF route \in {"/sessions/control", "/openclaw/command"}
  THEN controlApiSecret ELSE asteriskSharedSecret

\* The egress poll reads its query; the other routes read a JSON body.
readsBody(route) == route # "/asterisk/egress/next"

validateOpenClawCommandBody(payload) ==
  /\ isObject(payload)
  /\ isString(payload.command)
  /\ validateOpenClawCommandPayload(payload.command.value)
  /\ sourceOk(payload.source)

validates(route, payload) ==
  CASE route = "/asterisk/inbound" -> validateAsteriskInboundPayload(payload)
    [] route = "/asterisk/media" -> validateAsteriskMediaPayload(payload)
    [] route = "/asterisk/end" -> validateAsteriskEndPayload(payload)
    [] route = "/sessions/control" -> validateSessionControlPayload(payload)
    [] route = "/openclaw/command" -> validateOpenClawCommandBody(payload)
    [] OTHER -> TRUE

\* `payload.sessionId ?? (payload.callId ? resolveSessionIdByExternal(...) : undefined)`,
\* 0 standing for undefined.
locatedSessionId(payload) ==
  IF isString(payload.sessionId) THEN sessionIdOf(payload.sessionId.value)
  ELSE IF isString(payload.callId) /\ payload.callId.value # <<>>
  THEN resolveSessionIdByExternal(externalToInternal, sessions, sourceOf(payload.source),
                                  payload.callId.value)
  ELSE 0

\* The session a route resolves before it calls the orchestrator or the
\* store; the other routes resolve in their handler.
resolvedSessionId(route, payload) ==
  CASE route = "/asterisk/media" ->
         resolveSessionIdByExternal(externalToInternal, sessions, Voipms, payload.callId.value)
    [] route = "/sessions/control" -> locatedSessionId(payload)
    [] route = "/asterisk/egress/next" -> locatedSessionId(payload)
    [] OTHER -> UnknownSessionId

\* The stages a request of a secret route passes before its handler is
\* called or its refusal is written: the secret is compared first, then the
\* body is read and parsed, then validated, then the session is resolved.
stages(authenticated, parsed, valid, found, body) ==
  IF ~authenticated THEN <<"authenticate", "respond">>
  ELSE IF body /\ ~parsed THEN <<"authenticate", "parse", "respond">>
  ELSE IF body /\ ~valid THEN <<"authenticate", "parse", "validate", "respond">>
  ELSE IF ~found THEN (IF body THEN <<"authenticate", "parse", "validate", "respond">>
                       ELSE <<"authenticate", "respond">>)
  ELSE IF body THEN <<"authenticate", "parse", "validate", "dispatch">>
  ELSE <<"authenticate", "dispatch">>

\* The status a request is refused with before its handler is called, 0 when
\* it is not refused; the order is that of the stages.
refusal(order, authenticated, parsed, valid, found) ==
  IF "dispatch" \in {order[i] : i \in DOMAIN order} THEN 0
  ELSE LET last == order[Len(order) - 1] IN
       IF last = "authenticate" /\ ~authenticated THEN 403
       ELSE IF last = "parse" THEN 500
       ELSE IF last = "validate" /\ ~valid THEN 400
       ELSE 404

\* A request is received on a secret route and handled up to the call of its
\* handler; a refused request is answered at once.
HttpRequest(route, header, body) ==
  LET authenticated == hasMatchingHeaderSecret(header, routeSecret(route))
      parsed == ~readJsonBodyThrows(body)
      valid == parsed /\ validates(route, body)
      found == valid /\ resolvedSessionId(route, body) # 0
      order == stages(authenticated, parsed, valid, found, readsBody(route))
      status == refusal(order, authenticated, parsed, valid, found)
  IN
  /\ ~(request.stage = "dispatch" /\ ret.op = "dispatch")
  /\ request' = [route |-> route, header |-> header, body |-> body,
                 stage |-> IF status = 0 THEN "dispatch" ELSE "responded",
                 status |-> status, stages |-> order, count |-> request.count + 1]
  /\ ret' = [op |-> IF status = 0 THEN "dispatch" ELSE "http", status |-> status]
  /\ UNCHANGED <<storeVars, orchVars, egressVars, configVars, bridgeVars>>
  /\ UNCHANGED <<handshakes, sttLog, frameLog, frameCount, chunkCount, egressLog, emitted>>
  /\ UNCHANGED <<asteriskSharedSecret, controlApiSecret, twilioAuthToken, publicBaseUrl, socket>>

\* The request that passed on that route and whose handler is called next.
Dispatching(route) ==
  /\ request.stage = "dispatch"
  /\ request.route = route
  /\ ret.op = "dispatch"

\* resolveAsteriskEndSessionId found the session the payload names by its id.
AsteriskEndBySessionId(sessionId) ==
  /\ IF sessionId \notin DOMAIN sessions
     THEN /\ ret' = [op |-> "endSession", sessionId |-> 0, status |-> 404]
          /\ UNCHANGED <<sessions, queues, egressLog, emitted>>
     ELSE /\ sessions' = endSessionSessions(sessions, sessionId)
          /\ emitted' = emitEvent(emitted, hasOnSessionEvent,
                                  SessionEvent("session.ended", sessionId, 0))
          /\ queues' = clear(queues, sessionId)
          /\ egressLog' = logClear(egressLog, queues, sessionId)
          /\ ret' = [op |-> "endSession", sessionId |-> sessionId, status |-> 200]
  /\ UNCHANGED <<externalToInternal, nextId, orchVars, configVars, bridgeVars, httpVars>>
  /\ UNCHANGED <<handshakes, sttLog, frameLog, frameCount, chunkCount>>

\* The handler of the request that passed.
HttpDispatch ==
  LET payload == request.body IN
  \/ /\ Dispatching("/asterisk/inbound")
     /\ OnIncomingCallEvent(Voipms, payload.callId.value, payload.from.value, 0)
  \/ /\ Dispatching("/asterisk/media")
     /\ OnAudioFrame(resolvedSessionId("/asterisk/media", payload), 0)
  \/ /\ Dispatching("/asterisk/end")
     /\ IF isString(payload.sessionId)
        THEN AsteriskEndBySessionId(sessionIdOf(payload.sessionId.value))
        ELSE AsteriskEnd(sourceOf(payload.source), payload.callId.value)
  \/ /\ Dispatching("/asterisk/egress/next")
     /\ EgressNextBySession(resolvedSessionId("/asterisk/egress/next", payload))
  \/ /\ Dispatching("/sessions/control")
     /\ SessionControl(resolvedSessionId("/sessions/control", payload), patchOf(payload))
  \/ /\ Dispatching("/openclaw/command")
     /\ OpenClawCommand(TRUE, payload.command.value)

\* POST /twilio/voice up to handleTwilioInbound: the form is read, then the
\* signature is compared.
TwilioPath == <<"/twilio/voice">>

TwilioRequest(signature, host, formBody) ==
  LET passes == hasValidTwilioSignature(signature, TwilioPath, host, formBody,
                                        twilioAuthToken, publicBaseUrl)
      status == IF passes THEN 0 ELSE 403
  IN
  /\ ~(request.stage = "dispatch" /\ ret.op = "dispatch")
  /\ request' = [route |-> "/twilio/voice", header |-> signature,
                 body |-> [json |-> "form", form |-> formBody, host |-> host],
                 stage |-> IF passes THEN "dispatch" ELSE "responded",
                 status |-> status,
                 stages |-> IF passes THEN <<"parse", "authenticate", "dispatch">>
                            ELSE <<"parse", "authenticate", "respond">>,
                 count |-> request.count + 1]
  /\ ret' = [op |-> IF passes THEN "dispatch" ELSE "http", status |-> status]
  /\ UNCHANGED <<storeVars, orchVars, egressVars, configVars, bridgeVars>>
  /\ UNCHANGED <<handshakes, sttLog, frameLog, frameCount, chunkCount, egressLog, emitted>>
  /\ UNCHANGED <<asteriskSharedSecret, controlApiSecret, twilioAuthToken, publicBaseUrl, socket>>

\* handleTwilioInbound for the request that passed.
TwilioDispatch ==
  /\ Dispatching("/twilio/voice")
  /\ TwilioVoice(parseTwilioIncoming(request.body.form))

\* ------------------------------------------------ actions: the media WebSocket

\* A media WebSocket connects: wireTwilioMediaSocket installs its handlers.
WsConnect ==
  /\ ~socket.open
  /\ socket' = Connected
  /\ ret' = [op |-> "wsConnect"]
  /\ UNCHANGED <<storeVars, orchVars, egressVars, configVars, bridgeVars>>
  /\ UNCHANGED <<handshakes, sttLog, frameLog, frameCount, chunkCount, egressLog, emitted>>
  /\ UNCHANGED <<asteriskSharedSecret, controlApiSecret, twilioAuthToken, publicBaseUrl, request>>

\* A `start` message: callSid is assigned; without one the handler returns,
\* else sessionId is what resolveSessionIdByExternal("twilio", callSid) answers.
WsStart(callSid) ==
  /\ socket.open
  /\ socket' = IF noCallSid(callSid) THEN [socket EXCEPT !.callSid = callSid]
                ELSE [socket EXCEPT
                        !.callSid = callSid,
                        !.sessionId = resolveSessionIdByExternal(externalToInternal, sessions,
                                                                 Twilio, callSid.value)]
  /\ ret' = [op |-> "wsStart", callSid |-> callSid]
  /\ UNCHANGED <<storeVars, orchVars, egressVars, configVars, bridgeVars>>
  /\ UNCHANGED <<handshakes, sttLog, frameLog, frameCount, chunkCount, egressLog, emitted>>
  /\ UNCHANGED <<asteriskSharedSecret, controlApiSecret, twilioAuthToken, publicBaseUrl, request>>

\* A `media` message: dropped, or handed to onAudioFrame as a frame.
WsMedia(hasPayload, timestampMs) ==
  /\ socket.open
  /\ IF forwardsMedia(socket.sessionId, socket.callSid, hasPayload)
     THEN LET frame == mediaFrame(socket.sessionId, timestampMs) IN
          OnAudioFrame(frame.sessionId, frame.timestampMs)
     ELSE /\ ret' = [op |-> "wsMedia", outcome |-> "ignored", hasPayload |-> hasPayload]
          /\ UNCHANGED <<storeVars, orchVars, egressVars, configVars, bridgeVars, httpVars>>
          /\ UNCHANGED <<handshakes, sttLog, frameLog, frameCount, chunkCount, egressLog,
                         emitted>>

\* A `stop` message: endSession for the session of the connection, if any.
WsStop ==
  /\ socket.open
  /\ IF socket.sessionId # 0
     THEN MediaStreamStop(socket.sessionId)
     ELSE /\ ret' = [op |-> "wsStop", outcome |-> "ignored"]
          /\ UNCHANGED <<storeVars, orchVars, egressVars, configVars, bridgeVars, httpVars>>
          /\ UNCHANGED <<handshakes, sttLog, frameLog, frameCount, chunkCount, egressLog,
                         emitted>>

\* The socket closes: endSession for the session of the connection, if any;
\* its handlers are called no more.
WsClose ==
  /\ socket.open
  /\ socket' = NoSocket
  /\ IF socket.sessionId # 0
     THEN /\ sessions' = endSessionSessions(sessions, socket.sessionId)
          /\ emitted' = emitEvent(emitted, hasOnSessionEvent,
                                  SessionEvent("session.ended", socket.sessionId, 0))
          /\ ret' = [op |-> "endSession", sessionId |-> socket.sessionId, status |-> 200]
     ELSE /\ ret' = [op |-> "wsClose", outcome |-> "ignored"]
          /\ UNCHANGED <<sessions, emitted>>
  /\ UNCHANGED <<externalToInternal, nextId, orchVars, egressVars, configVars, bridgeVars>>
  /\ UNCHANGED <<handshakes, sttLog, frameLog, frameCount, chunkCount, egressLog>>
  /\ UNCHANGED <<asteriskSharedSecret, controlApiSecret, twilioAuthToken, publicBaseUrl, request>>

\* ---------------------------------------------------------- specifications

\* The session lifecycle: handshakes from both ingress sources, ends by the
\* media stream and by the SIP bridge, control patches, and audio frames
\* whose STT call answers null.
TwilioCallSids == {<<"a">>}

NextSessions ==
  \/ \E c \in TwilioCallSids : TwilioVoice(c)
  \/ \E c \in CallIds : AsteriskInbound(c)
  \/ \E id \in 1..MaxSessions : MediaStreamStop(id)
  \/ \E src \in IngressSource, c \in CallIds : AsteriskEnd(src, c)
  \/ \E id \in 1..MaxSessions, patch \in ControlPatches : SessionControl(id, patch)
  \/ \E id \in 1..MaxSessions :
       frameCount < MaxSessionFrames /\ OnAudioFrame(id, 0)
  \/ \E f \in inflight : SttReturns(f, "null", 0)

Spec == InitSessions /\ [][NextSessions]_vars

\* The Egress Store and its wiring alone, for two session ids.
EgressSessions == {1, 2}

InitEgress == InitWith({Undefined}, 1..MaxQueueBound)

NextEgress ==
  \/ \E id \in EgressSessions : TtsChunkDelivered(id)
  \/ \E id \in EgressSessions : EgressNextBySession(id)
  \/ \E id \in EgressSessions : EgressClear(id)

SpecEgress == InitEgress /\ [][NextEgress]_vars

\* The rate limiter: one SIP-bridge call (and an id no session has), frames
\* with any timestamps, an STT provider that answers null.
RateCallIds == {<<"a">>}
RateSessionIds == {1, 2}

InitRate == InitWith({Undefined} \cup (0..MaxInterval), {1})

NextRate ==
  \/ \E c \in RateCallIds : AsteriskInbound(c)
  \/ \E id \in RateSessionIds, t \in 0..MaxTs :
       frameCount < MaxFrames /\ OnAudioFrame(id, t)
  \/ \E f \in inflight : SttReturns(f, "null", 0)

SpecRate == InitRate /\ [][NextRate]_vars

\* The whole pipeline for one SIP-bridge call: handshake, mode switches,
\* frames, the three providers answering anything, egress polls, the end.
PipelineCallIds == {<<"a">>}
PipelineSessionIds == {1}
PipelineTimestamps == {0}
\* What the providers' calls take (Date.now() differences), in ms.
SttLatencies == {1}
MtLatencies == {2}
TtsLatencies == {0, 4}

InitPipeline == InitWith({Undefined, MaxInterval}, 1..MaxQueueBound)

NextPipeline ==
  \/ \E c \in PipelineCallIds : AsteriskInbound(c)
  \/ \E id \in PipelineSessionIds, patch \in ControlPatches : SessionControl(id, patch)
  \/ \E id \in PipelineSessionIds, t \in PipelineTimestamps :
       frameCount < MaxPipelineFrames /\ OnAudioFrame(id, t)
  \/ \E f \in inflight, r \in {"null", "blank", "text"}, l \in SttLatencies :
       SttReturns(f, r, l)
  \/ \E f \in inflight, r \in {"null", "text"}, l \in MtLatencies : MtReturns(f, r, l)
  \/ \E f \in inflight, r \in {"null", "chunk"}, l \in TtsLatencies : TtsReturns(f, r, l)
  \/ \E f \in inflight : FrameFinishes(f)
  \/ \E c \in PipelineCallIds : EgressNextByCall(Voipms, c)
  \/ \E c \in PipelineCallIds : AsteriskEnd(Voipms, c)

SpecPipeline == InitPipeline /\ [][NextPipeline]_vars

\* The event stream of one SIP-bridge call on a gateway whose onSessionEvent
\* hook is set: handshake, frames, providers that answer anything or throw,
\* end requests.
EventCallIds == {<<"a">>}
EventSessionIds == {1}
ProviderLatencies == {1}

InitEvents == InitState({Undefined}, {1}, {TRUE})

NextEvents ==
  \/ \E c \in EventCallIds : AsteriskInbound(c)
  \/ \E id \in EventSessionIds :
       frameCount < MaxEventFrames /\ OnAudioFrame(id, 0)
  \/ \E f \in inflight, r \in {"null", "text", "throw"}, l \in ProviderLatencies :
       SttReturns(f, r, l)
  \/ \E f \in inflight, r \in {"null", "text", "throw"}, l \in ProviderLatencies :
       MtReturns(f, r, l)
  \/ \E f \in inflight, r \in {"null", "chunk", "throw"}, l \in ProviderLatencies :
       TtsReturns(f, r, l)
  \/ \E f \in inflight : FrameFinishes(f)
  \/ \E c \in EventCallIds : Len(emitted) < MaxEvents /\ AsteriskEnd(Voipms, c)

SpecEvents == InitEvents /\ [][NextEvents]_vars

\* The control stream of two calls, with or without the onSessionEvent
\* hook: handshakes, control patches (also for an id no session has), end
\* requests, and frames that show the mode in force.
ControlCallIds == {<<"a">>, <<"b">>}
ControlSessionIds == {1, 2, 3}

InitControl == InitState({Undefined}, {1}, BOOLEAN)

NextControl ==
  \/ \E c \in ControlCallIds : AsteriskInbound(c)
  \/ \E id \in ControlSessionIds, patch \in ControlPatches :
       /\ emitsControlUpdated(sessions, id) => Len(emitted) < MaxEvents
       /\ SessionControl(id, patch)
  \/ \E c \in ControlCallIds : Len(emitted) < MaxEvents /\ AsteriskEnd(Voipms, c)
  \/ \E id \in ControlSessionIds :
       frameCount < MaxSessionFrames /\ OnAudioFrame(id, 0)
  \/ \E f \in inflight : SttReturns(f, "null", 0)

SpecControl == InitControl /\ [][NextControl]_vars

\* The event bridge: session events and commands are enqueued while the drain
\* loop POSTs, the endpoint answering as it likes.
BridgePayload == <<<<"source", "twilio">>, <<"state", "new">>>>
BridgePayloadReordered == <<<<"state", "new">>, <<"source", "twilio">>>>
BridgeEvents ==
  { BridgeEvent("session.started", 1, 0, BridgePayload),
    BridgeEvent("session.started", 1, 0, BridgePayloadReordered),
    BridgeEvent("session.ended", 1, 1, <<>>) }
BridgeCommands == {<<>>, <<" ">>, <<"g", "o">>}
BridgeAttemptBounds == {1, 2, DefaultMaxAttempts}

InitBridge == InitGateway({Undefined}, {1}, BOOLEAN, BridgeAttemptBounds)

NextBridge ==
  \/ \E event \in BridgeEvents :
       Len(enqueued) < MaxEnvelopes /\ PublishSessionEvent(event)
  \/ \E authorized \in BOOLEAN, command \in BridgeCommands :
       Len(enqueued) < MaxEnvelopes /\ OpenClawCommand(authorized, command)
  \/ \E i \in DOMAIN drainLoops, status \in PostStatuses : PostAnswers(i, status)
  \/ \E i \in DOMAIN drainLoops : BackoffElapses(i)

SpecBridge == InitBridge /\ [][NextBridge]_vars

\* Every attempt ends, at the latest by its timeout, and every backoff timer
\* fires.
FairBridge ==
  /\ WF_vars(\E i \in DOMAIN drainLoops, status \in PostStatuses : PostAnswers(i, status))
  /\ WF_vars(\E i \in DOMAIN drainLoops : BackoffElapses(i))

SpecBridgeFair == SpecBridge /\ FairBridge

\* The boundary server: requests on the secret routes, with and without the
\* header, with bodies that parse or not, validate or not and name a known
\* session or not, while synthesized chunks arrive for the sessions.
Secret == <<"s">>
HttpHeaders == {Unset, Str(Secret), Str(<<"x">>)}
HttpSecrets == {Unset, Str(Secret)}

E164Caller == AnyCaller
Callee == <<"+", "1", "8", "0", "0", "5", "5", "5", "0">>
NotE164Caller == <<"a", "n", "o", "n">>

InboundBody(callId, from) ==
  [EmptyBody EXCEPT !.callId = JsonString(callId), !.from = JsonString(from),
                    !.to = JsonString(Callee)]
MediaBody(callId, encoding) ==
  [EmptyBody EXCEPT !.callId = JsonString(callId), !.sampleRateHz = JsonNumber(<<"8000">>),
                    !.encoding = JsonString(encoding),
                    !.payloadBase64 = JsonString(<<"A", "Q", "I", "=">>)]
ByCallId(callId) == [EmptyBody EXCEPT !.callId = JsonString(callId)]
BySessionId(text) == [EmptyBody EXCEPT !.sessionId = JsonString(text)]
ControlBody(locator, mode) == [locator EXCEPT !.mode = JsonString(mode)]
CommandBody(command) == [EmptyBody EXCEPT !.command = JsonString(command)]

HttpCallId == <<"a">>
UnknownCallId == <<"z">>
KnownSessionText == <<"1">>
UnknownSessionText == <<"9">>

HttpBodies(route) ==
  CASE route = "/asterisk/inbound" ->
         {MalformedBody, EmptyBody, InboundBody(HttpCallId, E164Caller),
          InboundBody(HttpCallId, NotE164Caller),
          [InboundBody(HttpCallId, E164Caller) EXCEPT !.to = JsonNumber(<<"1">>)]}
    [] route = "/asterisk/media" ->
         {MalformedBody, NullBody, MediaBody(HttpCallId, <<"mulaw">>),
          MediaBody(UnknownCallId, <<"pcm_s16le">>), MediaBody(HttpCallId, <<"opus">>)}
    [] route = "/asterisk/end" ->
         {MalformedBody, EmptyBody, ByCallId(HttpCallId), ByCallId(UnknownCallId),
          BySessionId(KnownSessionText), BySessionId(UnknownSessionText)}
    [] route = "/asterisk/egress/next" ->
         {EmptyBody, ByCallId(HttpCallId), ByCallId(UnknownCallId),
          BySessionId(KnownSessionText), BySessionId(UnknownSessionText)}
    [] route = "/sessions/control" ->
         {MalformedBody, BySessionId(KnownSessionText),
          ControlBody(EmptyBody, <<"passthrough">>),
          ControlBody(BySessionId(KnownSessionText), <<"passthrough">>),
          ControlBody(BySessionId(KnownSessionText), <<"loud">>),
          ControlBody(BySessionId(UnknownSessionText), <<"passthrough">>),
          ControlBody(ByCallId(UnknownCallId), <<"private_translation">>),
          ControlBody(ByCallId(HttpCallId), <<"passthrough">>)}
    [] route = "/openclaw/command" ->
         {MalformedBody, EmptyBody, CommandBody(<<" ">>), CommandBody(<<"g", "o">>)}

InitHttp ==
  InitServer({Undefined}, {1}, {TRUE}, {DefaultMaxAttempts}, HttpSecrets, HttpSecrets,
             {Unset}, {Unset})

\* No request is between its gate and its handler.
Idle == ~(request.stage = "dispatch" /\ ret.op = "dispatch")

NextHttp ==
  \/ /\ Idle
     /\ request.count < MaxRequests
     /\ Len(emitted) < MaxEvents
     /\ Len(enqueued) < MaxEnvelopes
     /\ \E route \in SecretRoutes, header \in HttpHeaders :
          \E body \in HttpBodies(route) : HttpRequest(route, header, body)
  \/ HttpDispatch
  \/ \E id \in DOMAIN sessions :
       Idle /\ chunkCount < MaxHttpChunks /\ TtsChunkDelivered(id)

SpecHttp == InitHttp /\ [][NextHttp]_vars

\* The webhook gate: form bodies of up to two fields, in either order, signed
\* or not, by the configured token or another, for this URL or another, for
\* this form or another.
AuthToken == <<"t">>
TwilioTokens == {AuthToken, <<"u">>}
TwilioKeys == {CallSid, <<"a", "b">>, <<"a", "b", "a">>, <<"b", "a">>}
TwilioValues == {<<>>, <<"a">>}
TwilioFields == TwilioKeys \X TwilioValues
TwilioForms ==
  {<<>>} \cup {<<field>> : field \in TwilioFields}
         \cup {<<f, g>> : f, g \in {h \in TwilioFields : h[1] # CallSid \/ h[2] # <<>>}}
TwilioFormBodies == {form \in TwilioForms : \A i, j \in DOMAIN form : i # j => form[i][1] # form[j][1]}
SentForms ==
  {form \in TwilioFormBodies :
     \/ Len(form) < 2
     \/ has(form, CallSid)
     \/ \A i \in DOMAIN form : form[i][2] = <<>>}
SignedForm == << <<<<"a", "b">>, <<>>>>, <<<<"a", "b", "a">>, <<>>>> >>
Hosts == {Unset, Str(<<"g">>)}
PublicBaseUrls == {Unset, Str(<<"h", "/">>)}
OtherUrl == <<"h", "/", "other">>

\* The header Twilio, or someone else, sent with the form.
TwilioSignatures(host, formBody) ==
  {Unset, Str(computeTwilioSignature(OtherUrl, formBody, AuthToken))} \cup
  {Str(computeTwilioSignature(buildPublicUrl(TwilioPath, publicBaseUrl, host), signed, token)) :
     signed \in {formBody, SignedForm},
     token \in TwilioTokens}

InitTwilio ==
  InitServer({Undefined}, {1}, {FALSE}, {DefaultMaxAttempts}, {Unset}, {Unset},
             {Unset, Str(<<>>), Str(AuthToken)}, PublicBaseUrls)

NextTwilio ==
  \/ /\ Idle
     /\ request.count < MaxWebhooks
     /\ \E host \in Hosts, formBody \in SentForms :
          \E signature \in TwilioSignatures(host, formBody) :
            TwilioRequest(signature, host, formBody)
  \/ TwilioDispatch

SpecTwilio == InitTwilio /\ [][NextTwilio]_vars

\* Repeated handshakes: one external call id whose handshake is sent again,
\* with this caller and arrival time or others, while the session is
\* switched, fed frames, sent chunks and ended.
OtherCaller == <<"+", "1", "5", "5", "5", "0", "0", "0", "2">>
HandshakeCallId == <<"a">>
HandshakeTimes == {0, 1}

InitHandshake == InitState({Undefined}, {MaxQueueBound}, {TRUE})

NextHandshake ==
  \/ \E from \in {AnyCaller, OtherCaller}, receivedAtMs \in HandshakeTimes :
       OnIncomingCallEvent(Voipms, HandshakeCallId, from, receivedAtMs)
  \/ \E id \in DOMAIN sessions :
       /\ Len(emitted) < MaxEvents
       /\ SessionControl(id, [mode |-> "passthrough", sourceLanguage |-> "none",
                              targetLanguage |-> "none"])
  \/ \E id \in DOMAIN sessions :
       frameCount < MaxSessionFrames /\ OnAudioFrame(id, 1)
  \/ \E f \in inflight : SttReturns(f, "null", 0)
  \/ \E id \in DOMAIN sessions :
       chunkCount < MaxHttpChunks /\ TtsChunkDelivered(id)
  \/ Len(emitted) < MaxEvents /\ AsteriskEnd(Voipms, HandshakeCallId)

SpecHandshake == InitHandshake /\ [][NextHandshake]_vars

\* The stages of the pipeline with the hook set: every provider answers
\* null or a result, and STT also whitespace-only text.
GatingCallIds == {<<"a">>}
GatingSessionIds == {1}

InitGating == InitState({Undefined}, {MaxQueueBound}, {TRUE})

NextGating ==
  \/ \E c \in GatingCallIds : AsteriskInbound(c)
  \/ \E id \in GatingSessionIds :
       frameCount < MaxPipelineFrames /\ OnAudioFrame(id, 0)
  \/ \E f \in inflight, r \in {"null", "blank", "text"}, l \in SttLatencies :
       SttReturns(f, r, l)
  \/ \E f \in inflight, r \in {"null", "text"}, l \in MtLatencies : MtReturns(f, r, l)
  \/ \E f \in inflight, r \in {"null", "chunk"}, l \in TtsLatencies : TtsReturns(f, r, l)
  \/ \E f \in inflight : FrameFinishes(f)

SpecGating == InitGating /\ [][NextGating]_vars

\* Pacing: the frames of one SIP-bridge call, with any timestamps, while the
\* session is switched between translation and passthrough; STT answers null.
PacingCallIds == {<<"a">>}
PacingSessionIds == {1}

InitPacing == InitWith({Undefined} \cup (0..MaxInterval), {1})

NextPacing ==
  \/ \E c \in PacingCallIds : AsteriskInbound(c)
  \/ \E id \in PacingSessionIds, patch \in ControlPatches : SessionControl(id, patch)
  \/ \E id \in PacingSessionIds, t \in 0..MaxTs :
       frameCount < MaxFrames /\ OnAudioFrame(id, t)
  \/ \E f \in inflight : SttReturns(f, "null", 0)

SpecPacing == InitPacing /\ [][NextPacing]_vars

\* Control patches: every patch of mode and languages, each field present or
\* absent, on the session of the first of two SIP-bridge calls and on an id
\* no session has, while the calls are ended; the event hook is set.
PatchCallIds == {<<"a">>, <<"b">>}
PatchSessionIds == {1, 3}
Patches ==
  [mode : SessionMode \cup {"none"}, sourceLanguage : LanguageCode \cup {"none"},
   targetLanguage : LanguageCode \cup {"none"}]

InitPatch == InitState({Undefined}, {1}, {TRUE})

NextPatch ==
  \/ \E c \in PatchCallIds : Len(emitted) < MaxEvents /\ AsteriskInbound(c)
  \/ \E id \in PatchSessionIds, patch \in Patches :
       /\ emitsControlUpdated(sessions, id) => Len(emitted) < MaxEvents
       /\ SessionControl(id, patch)
  \/ \E c \in PatchCallIds : Len(emitted) < MaxEvents /\ AsteriskEnd(Voipms, c)

SpecPatch == InitPatch /\ [][NextPatch]_vars

\* The end of SIP-bridge calls: two calls that are handed synthesized chunks,
\* polled, and ended by call id or by session id at any moment.
EndCallIds == {<<"a">>, <<"b">>}
EndSessionIds == {1, 2}

InitEnd == InitWith({Undefined}, {MaxQueueBound})

NextEnd ==
  \/ \E c \in EndCallIds : AsteriskInbound(c)
  \/ \E id \in EndSessionIds :
       chunkCount < MaxEndChunks /\ TtsChunkDelivered(id)
  \/ \E c \in EndCallIds : EgressNextByCall(Voipms, c)
  \/ \E c \in EndCallIds : AsteriskEnd(Voipms, c)
  \/ \E id \in EndSessionIds \cup {UnknownSessionId} : AsteriskEndBySessionId(id)

SpecEnd == InitEnd /\ [][NextEnd]_vars

\* Two sessions side by side: the SIP-bridge calls a and b, frames that go
\* through the whole pipeline or are refused by the rate limiter, chunks
\* handed to the Egress Store, polls and ends, in any interleaving.
IsolationCallIds == {<<"a">>, <<"b">>}
IsolationSessionIds == {1, 2}

InitIsolation == InitWith({MaxInterval}, {1})

NextIsolation ==
  \/ \E c \in IsolationCallIds : AsteriskInbound(c)
  \/ \E id \in IsolationSessionIds :
       frameCount < MaxSessionFrames /\ OnAudioFrame(id, 0)
  \/ \E id \in {2} :
       chunkCount < MaxHttpChunks /\ TtsChunkDelivered(id)
  \/ \E f \in inflight : SttReturns(f, "text", 0)
  \/ \E f \in inflight : MtReturns(f, "text", 0)
  \/ \E f \in inflight : TtsReturns(f, "chunk", 0)
  \/ \E f \in inflight : FrameFinishes(f)
  \/ \E c \in IsolationCallIds : EgressNextByCall(Voipms, c)
  \/ \E c \in IsolationCallIds : AsteriskEnd(Voipms, c)

SpecIsolation == InitIsolation /\ [][NextIsolation]_vars

\* The media WebSocket: one connection at a time, whose start messages name
\* the call of the webhook, a call no webhook announced, or no call; a
\* SIP-bridge call with the same call id exists alongside.  STT answers null.
SocketCallSid == <<"a">>
UnmappedCallSid == <<"z">>
StartCallSids == {Unset, Str(<<>>), Str(SocketCallSid), Str(UnmappedCallSid)}

InitSocket == InitWith({Undefined}, {1})

NextSocket ==
  \/ TwilioVoice(SocketCallSid)
  \/ AsteriskInbound(SocketCallSid)
  \/ WsConnect
  \/ \E callSid \in StartCallSids : WsStart(callSid)
  \/ \E hasPayload \in BOOLEAN :
       frameCount < MaxSessionFrames /\ WsMedia(hasPayload, 0)
  \/ \E f \in inflight : SttReturns(f, "null", 0)
  \/ WsStop
  \/ WsClose

SpecSocket == InitSocket /\ [][NextSocket]_vars

\* The retry schedule: session events handed to a bridge whose endpoint
\* answers 2xx, answers otherwise or does not answer in time, with the
\* default attempts and with enough attempts for the waits to reach the cap.
BackoffAttemptBounds == {DefaultMaxAttempts, DefaultMaxAttempts + 2}
BackoffStatuses == {"200", "500", "timeout"}

InitBackoff == InitGateway({Undefined}, {1}, {TRUE}, BackoffAttemptBounds)

NextBackoff ==
  \/ \E event \in BridgeEvents :
       Len(enqueued) < MaxEnvelopes /\ PublishSessionEvent(event)
  \/ \E i \in DOMAIN drainLoops, status \in BackoffStatuses : PostAnswers(i, status)
  \/ \E i \in DOMAIN drainLoops : BackoffElapses(i)

SpecBackoff == InitBackoff /\ [][NextBackoff]_vars

\* The request timeout: session events handed to a bridge whose endpoint
\* answers, does not answer in time or cannot be reached, and health probes
\* of that endpoint.
TimeoutAttemptBounds == {1, DefaultMaxAttempts}
TimeoutStatuses == {"200", "500", "timeout"}
ProbeStatuses == {"200", "timeout", "unreachable"}

InitTimeout == InitGateway({Undefined}, {1}, {TRUE}, TimeoutAttemptBounds)

NextTimeout ==
  \/ \E event \in BridgeEvents :
       Len(enqueued) < MaxEnvelopes /\ PublishSessionEvent(event)
  \/ \E i \in DOMAIN drainLoops, status \in TimeoutStatuses : PostAnswers(i, status)
  \/ \E i \in DOMAIN drainLoops : BackoffElapses(i)
  \/ \E status \in ProbeStatuses : HealthCheck(status)

SpecTimeout == InitTimeout /\ [][NextTimeout]_vars

\* Every attempt ends, at the latest when its timer aborts it, and every
\* backoff timer fires.
FairTimeout ==
  /\ WF_vars(\E i \in DOMAIN drainLoops, status \in TimeoutStatuses : PostAnswers(i, status))
  /\ WF_vars(\E i \in DOMAIN drainLoops : BackoffElapses(i))

SpecTimeoutFair == SpecTimeout /\ FairTimeout

\* ------------------------------------------------------------------ claims

\* C1: a repeated handshake for the same incoming-call event answers the id
\* that the first handshake for it answered, whatever happened in between,
\* and the number of sessions listSessions returns is the number of distinct
\* events handshaken: repeats add none.
C1_DuplicateHandshakeIdempotent ==
  /\ ret.op = "onIncomingCall" =>
       /\ <<ret.source, ret.externalCallId>> \in DOMAIN handshakes
       /\ ret.sessionId = handshakes[<<ret.source, ret.externalCallId>>]
  /\ Cardinality(all(sessions)) = Cardinality(DOMAIN handshakes)

\* A duplicate handshake was answered while another session exists.
C1_Witness ==
  /\ ret.op = "onIncomingCall"
  /\ ret.duplicate
  /\ Cardinality(DOMAIN sessions) >= 2

\* C2: every handshaken (source, externalCallId) pair has exactly one
\* session, the one whose id was minted for it; getByExternal answers it;
\* distinct pairs, also the same externalCallId under the two sources, have
\* distinct sessions.
C2_OneSessionPerExternalPair ==
  /\ \A pair \in DOMAIN handshakes :
       LET found == getByExternal(externalToInternal, sessions, pair[1], pair[2]) IN
       /\ found.id = handshakes[pair]
       /\ found.source = pair[1]
       /\ Cardinality({id \in DOMAIN sessions : sessions[id].id = handshakes[pair]}) = 1
  /\ \A p, q \in DOMAIN handshakes : p # q => handshakes[p] # handshakes[q]
  /\ Cardinality(DOMAIN sessions) = Cardinality(DOMAIN handshakes)

\* The same externalCallId was handshaken under both ingress sources.
C2_Witness ==
  \E c \in CallIds :
    /\ <<Voipms, c>> \in DOMAIN handshakes
    /\ <<Twilio, c>> \in DOMAIN handshakes
    /\ handshakes[<<Voipms, c>>] # handshakes[<<Twilio, c>>]

\* The moves of a session's state that the claim allows.
StateMoves ==
  {<<"pending", "active">>, <<"active", "ended">>, <<"active", "failed">>}

\* C3: a successful endSession leaves the session ended; an ended session
\* stays ended through every later operation; a session's state only moves
\* along pending -> active -> (ended | failed); sessions are never removed.
C3_EndedIsTerminal ==
  /\ [](ret.op = "endSession" /\ ret.status = 200 =>
          /\ ret.sessionId \in DOMAIN sessions
          /\ sessions[ret.sessionId].state = "ended")
  /\ [][\A id \in DOMAIN sessions :
          /\ id \in DOMAIN sessions'
          /\ sessions[id].state = "ended" => sessions'[id].state = "ended"
          /\ \/ sessions'[id].state = sessions[id].state
             \/ <<sessions[id].state, sessions'[id].state>> \in StateMoves]_vars

\* An ended session has since seen a duplicate handshake for its external id.
C3_Witness ==
  /\ ret.op = "onIncomingCall"
  /\ ret.duplicate
  /\ sessions[ret.sessionId].state = "ended"

\* A session's counters as /metrics shows them: absent counts as 0.
droppedFramesOf(m, sessionId) == Coalesce(metricsGet(m, sessionId).droppedFrames, 0)
passthroughFramesOf(m, sessionId) == Coalesce(metricsGet(m, sessionId).passthroughFrames, 0)
translatedChunksOf(m, sessionId) == Coalesce(metricsGet(m, sessionId).translatedChunks, 0)

Last(s) == s[Len(s)]

\* C4: a frame that onAudioFrame receives while its session's mode is
\* passthrough makes no provider call (no frame enters or moves in the
\* pipeline), enqueues no chunk (a poll of a queue that was empty still
\* answers 204), adds exactly 1 to passthroughFrames, and leaves the
\* rate-limit timestamp and droppedFrames as they were.
C4_PassthroughShortCircuit ==
  [][(frameCount' = frameCount + 1 /\ get(sessions, ret'.sessionId).mode = "passthrough") =>
       LET id == ret'.sessionId IN
       /\ sttLog' = sttLog
       /\ inflight' = inflight
       /\ queues' = queues
       /\ chunkCount' = chunkCount
       /\ size(queues, id) = 0 => dequeueResult(queues', id) = NoChunk
       /\ passthroughFramesOf(metrics', id) = passthroughFramesOf(metrics, id) + 1
       /\ lastFrameAtMs' = lastFrameAtMs
       /\ droppedFramesOf(metrics', id) = droppedFramesOf(metrics, id)]_vars

\* A passthrough frame arrived for a session that had a frame translated
\* before: its rate-limit timestamp is set and a chunk waits in its queue.
C4_Witness ==
  /\ ret.op = "onAudioFrame"
  /\ ret.outcome = "passthrough"
  /\ ret.sessionId \in DOMAIN lastFrameAtMs
  /\ size(queues, ret.sessionId) > 0
  /\ passthroughFramesOf(metrics, ret.sessionId) = 1

\* C5: with minFrameIntervalMs = D > 0, two frames that reach STT one after
\* the other are at least D apart; a frame less than D after the last one
\* that reached STT makes no provider call and adds exactly 1 to
\* droppedFrames; frames at t, t + D/2 (whole ms), t + D + 1 give exactly
\* two STT calls and droppedFrames >= 1.
C5_RateLimiter ==
  /\ [](minFrameIntervalMs > 0 =>
          /\ \A s \in DOMAIN sttLog : \A i \in 1..(Len(sttLog[s]) - 1) :
                sttLog[s][i + 1] - sttLog[s][i] >= minFrameIntervalMs
          /\ \A s \in DOMAIN frameLog : \A t \in 0..MaxTs :
                frameLog[s] = <<t, t + (minFrameIntervalMs \div 2), t + minFrameIntervalMs + 1>>
                  => /\ Len(sttLog[s]) = 2
                     /\ droppedFramesOf(metrics, s) >= 1)
  /\ [][(/\ minFrameIntervalMs > 0
          /\ frameCount' = frameCount + 1
          /\ get(sessions, ret'.sessionId).mode = "private_translation"
          /\ ret'.sessionId \in DOMAIN sttLog
          /\ ret'.timestampMs - Last(sttLog[ret'.sessionId]) < minFrameIntervalMs) =>
           /\ sttLog' = sttLog
           /\ inflight' = inflight
           /\ droppedFramesOf(metrics', ret'.sessionId) =
                droppedFramesOf(metrics, ret'.sessionId) + 1]_vars

\* The three frames of the scenario were delivered to one session.
C5_Witness ==
  /\ minFrameIntervalMs > 1
  /\ \E s \in DOMAIN frameLog : \E t \in 0..MaxTs :
        /\ frameLog[s] = <<t, t + (minFrameIntervalMs \div 2), t + minFrameIntervalMs + 1>>
        /\ droppedFramesOf(metrics, s) = 1

\* C6: with minFrameIntervalMs = 0 or unset no frame of a known
\* private-translation session is dropped and droppedFrames stays 0, whatever
\* the frames' timestamps are.
C6_LimiterInactiveWithoutInterval ==
  Coalesce(minFrameIntervalMs, 0) = 0 =>
    /\ \A s \in DOMAIN sessions : droppedFramesOf(metrics, s) = 0
    /\ ret.op = "onAudioFrame" => ret.outcome # "dropped"

\* With no interval configured a frame was dropped: its timestamp is lower
\* than that of the last frame that reached STT.
C6_Witness ==
  /\ Coalesce(minFrameIntervalMs, 0) = 0
  /\ ret.op = "onAudioFrame"
  /\ ret.outcome = "dropped"
  /\ ret.timestampMs < lastFrameAtMs[ret.sessionId]
  /\ droppedFramesOf(metrics, ret.sessionId) = 1

\* C7: for a store of bound B >= 1 the size of a session's queue is never
\* above B; after N enqueues in a row it is min(N, B), and what the dequeues
\* that follow return, then what is still queued, are the last min(N, B)
\* chunks enqueued, in the order they were enqueued.
C7_EgressBoundAndContent ==
  /\ maxQueuePerSession >= 1
  /\ \A s \in DOMAIN queues : size(queues, s) <= maxQueuePerSession
  /\ \A s \in DOMAIN egressLog :
       LET e == egressLog[s]
           kept == Min(Len(e.sent), maxQueuePerSession)
       IN /\ e.got \o queueOf(queues, s) = LastK(e.sent, kept)
          /\ e.got = <<>> => size(queues, s) = kept

\* More chunks than the bound were enqueued in a row and the dequeues that
\* followed have emptied the queue.
C7_Witness ==
  \E s \in DOMAIN egressLog :
    /\ Len(egressLog[s].sent) > maxQueuePerSession
    /\ maxQueuePerSession > 1
    /\ Len(egressLog[s].got) = maxQueuePerSession
    /\ size(queues, s) = 0

\* C8: under any interleaving of enqueues and polls no chunk is returned
\* twice, chunks are returned in enqueue order, every enqueued chunk is in
\* exactly one place (returned, still queued, dropped as the oldest on
\* overflow, or cleared), the map holds no empty queue, and a poll of an
\* empty or unknown session answers nothing and changes nothing while a
\* poll of a non-empty one answers the head of the queue.
C8_EgressInterleaving ==
  /\ []( /\ \A s \in DOMAIN queues : Len(queues[s]) > 0
         /\ \A s \in DOMAIN egressLog :
              LET e == egressLog[s]
                  q == queueOf(queues, s)
              IN /\ \A i, j \in 1..Len(e.returned) :
                      i < j => e.returned[i].payload < e.returned[j].payload
                 /\ \A i, j \in 1..Len(q) : i < j => q[i].payload < q[j].payload
                 /\ \A i \in 1..Len(e.returned), j \in 1..Len(q) :
                      e.returned[i].payload < q[j].payload
                 /\ Range(e.enqueued) =
                      Range(e.returned) \cup Range(q) \cup e.dropped \cup e.cleared
                 /\ Range(e.returned) \cap (e.dropped \cup e.cleared) = {}
                 /\ Range(q) \cap (e.dropped \cup e.cleared) = {}
                 /\ e.dropped \cap e.cleared = {}
                 /\ Len(e.enqueued) =
                      Len(e.returned) + Len(q) + Cardinality(e.dropped) +
                      Cardinality(e.cleared))
  /\ [][(ret'.op = "egressNext" /\ ret'.status # 404) =>
          LET id == ret'.sessionId IN
          IF size(queues, id) = 0
          THEN /\ ret'.status = 204
               /\ ret'.chunk = NoChunk
               /\ queues' = queues
          ELSE /\ ret'.status = 200
               /\ ret'.chunk = Head(queues[id])
               /\ queueOf(queues', id) = Tail(queues[id])
               /\ ret'.remainingQueue = Len(queues[id]) - 1
               /\ \A other \in DOMAIN queues \ {id} :
                    other \in DOMAIN queues' /\ queues'[other] = queues[other]]_vars

\* A session has lost a chunk to overflow, had chunks returned by polls, and
\* its queue, emptied by the last poll, is gone from the map.
C8_Witness ==
  /\ ret.op = "egressNext"
  /\ ret.status = 200
  /\ ret.sessionId \notin DOMAIN queues
  /\ egressLog[ret.sessionId].dropped # {}
  /\ egressLog[ret.sessionId].cleared = {}
  /\ Len(egressLog[ret.sessionId].returned) >= 2

C10_FullPipelineStep ==
  /\ [][ret'.op = "tts" =>
          LET id == ret'.sessionId
              chunk == TtsChunk(id, chunkCount + 1)
          IN IF ret'.result = "null"
             THEN /\ queues' = queues
                  /\ chunkCount' = chunkCount
                  /\ egressLog' = egressLog
             ELSE /\ chunkCount' = chunkCount + 1
                  /\ egressLog'[id].enqueued = Append(egressLogOf(egressLog, id).enqueued, chunk)
                  /\ size(queues', id) >= 1
                  /\ Last(queues'[id]) = chunk
                  /\ size(queues, id) = 0 => dequeueResult(queues', id) = chunk
                  /\ translatedChunksOf(metrics', id) = translatedChunksOf(metrics, id)]_vars
  /\ [][ret'.op = "finish" =>
          LET id == ret'.sessionId
              after == metricsGet(metrics', id)
          IN /\ queues' = queues
             /\ chunkCount' = chunkCount
             /\ translatedChunksOf(metrics', id) = translatedChunksOf(metrics, id) + 1
             /\ after.sttLatencyMs \in SttLatencies
             /\ after.translationLatencyMs \in MtLatencies
             /\ after.ttsLatencyMs \in TtsLatencies
             /\ after.pipelineLatencyMs =
                  after.sttLatencyMs + after.translationLatencyMs + after.ttsLatencyMs]_vars

\* A frame went through all three providers and finished: its chunk waits
\* in the queue and the TTS call took time.
C10_Witness ==
  /\ ret.op = "finish"
  /\ translatedChunksOf(metrics, ret.sessionId) = 1
  /\ metrics[ret.sessionId].ttsLatencyMs > 0
  /\ size(queues, ret.sessionId) = 1
  /\ chunkCount = 1

\* The order of the steps of one frame, with the hook set.
FrameOrder ==
  <<"transcribe", "session.transcript", "translate", "session.translation",
    "synthesize", "onTtsChunk">>

IsPrefix(s, t) == Len(s) <= Len(t) /\ s = SubSeq(t, 1, Len(s))

\* The positions in the emitted events of the events of one type of frame n.
EventsAt(type, n) == {i \in 1..Len(emitted) : emitted[i].type = type /\ emitted[i].n = n}

\* C11: what onAudioFrame hands over for one frame comes in the fixed order
\* transcribe, session.transcript, translate, session.translation,
\* synthesize, onTtsChunk: the transcript event is handed to the hook before
\* the MT call and before the translation event, the translation event
\* before the TTS call, and onTtsChunk is invoked after both events.
C11_FrameStepsInOrder ==
  /\ [](/\ \A f \in inflight : IsPrefix(f.steps, FrameOrder)
        /\ ret.op \in {"stt", "mt", "tts", "finish"} => IsPrefix(ret.steps, FrameOrder)
        /\ \A j \in 1..Len(emitted) :
             emitted[j].type = "session.translation" =>
               \E i \in 1..(j - 1) : /\ emitted[i].type = "session.transcript"
                                     /\ emitted[i].n = emitted[j].n
                                     /\ emitted[i].sessionId = emitted[j].sessionId
        /\ \A f \in inflight :
             /\ f.pc = "mt" => /\ EventsAt("session.transcript", f.n) # {}
                               /\ EventsAt("session.translation", f.n) = {}
             /\ f.pc \in {"tts", "callback"} => EventsAt("session.translation", f.n) # {})
  /\ [][(ret'.op = "tts" /\ ret'.result = "chunk") =>
          /\ Cardinality(EventsAt("session.transcript", ret'.n)) = 1
          /\ Cardinality(EventsAt("session.translation", ret'.n)) = 1
          /\ emitted' = emitted
          /\ Len(queueOf(queues', ret'.sessionId)) >= 1]_vars

\* A frame has gone through all six steps while another frame of the
\* session was awaiting the translator.
C11_Witness ==
  /\ ret.op = "finish"
  /\ ret.steps = FrameOrder
  /\ \E f \in inflight : f.pc = "mt" /\ f.n < ret.n

\* C12: of the events of one session, session.started comes before every
\* session.transcript and session.translation event, and each of these
\* comes before the session's session.ended event.
C12_SessionEventOrder ==
  \A i, j \in 1..Len(emitted) :
    (i < j /\ emitted[i].sessionId = emitted[j].sessionId) =>
      /\ emitted[j].type # "session.started"
      /\ ~(/\ emitted[i].type = "session.ended"
           /\ emitted[j].type \in {"session.transcript", "session.translation"})

\* A frame that was awaiting its STT answer when the session was ended has
\* its session.transcript event emitted after session.ended.
C12_Witness ==
  /\ ret.op = "stt"
  /\ ret.result = "text"
  /\ Len(emitted) = 3
  /\ emitted[1].type = "session.started"
  /\ emitted[2].type = "session.ended"
  /\ emitted[3].type = "session.transcript"

\* C13: updateSessionControl on an ended session changes nothing and emits
\* no session.control.updated event; mode and languages of a session change
\* only in an updateSessionControl step that starts with the session pending
\* or active (and that emits session.control.updated when the hook is set).
C13_ControlOnlyOnLiveSessions ==
  /\ [][(/\ ret'.op = "updateSessionControl"
          /\ ret'.sessionId \in DOMAIN sessions
          /\ sessions[ret'.sessionId].state = "ended") =>
           /\ sessions' = sessions
           /\ emitted' = emitted
           /\ ret'.status = 404]_vars
  /\ [][\A id \in DOMAIN sessions :
          (\/ sessions'[id].mode # sessions[id].mode
           \/ sessions'[id].sourceLanguage # sessions[id].sourceLanguage
           \/ sessions'[id].targetLanguage # sessions[id].targetLanguage) =>
            /\ sessions[id].state \in {"pending", "active"}
            /\ ret'.op = "updateSessionControl"
            /\ hasOnSessionEvent =>
                 /\ Len(emitted') = Len(emitted) + 1
                 /\ Last(emitted').type = "session.control.updated"]_vars

\* A patch was refused on an ended session, which keeps the passthrough
\* mode that a patch applied while it was active had given it.
C13_Witness ==
  /\ ret.op = "updateSessionControl"
  /\ ret.status = 404
  /\ ret.sessionId \in DOMAIN sessions
  /\ sessions[ret.sessionId].state = "ended"
  /\ sessions[ret.sessionId].mode = "passthrough"
  /\ Len(emitted) = 3
  /\ emitted[2].type = "session.control.updated"
  /\ emitted[3].type = "session.ended"

\* C14: onAudioFrame completes normally whatever the providers do, also
\* when one throws.
C14_AbsorbsPipelineErrors ==
  ret.op \in {"stt", "mt", "tts", "finish"} => ~ret.rejected

\* The STT provider threw for a frame and onAudioFrame rejected; the frame
\* left no metrics.
C14_Witness ==
  /\ ret.op = "stt"
  /\ ret.result = "throw"
  /\ ret.rejected
  /\ ret.sessionId \notin DOMAIN metrics

\* The positions, in the log, of the POSTs of the envelope of that ordinal.
PostsOf(ordinal) == {i \in DOMAIN posts : posts[i].ordinal = ordinal}

\* The drain loops that serve the envelope of that ordinal.
LoopsServing(ordinal) == {i \in DOMAIN drainLoops : drainLoops[i].ordinal = ordinal}

Delivered(ordinal) == \E i \in PostsOf(ordinal) : posts[i].outcome = "delivered"

\* The envelope of that ordinal was dropped: its last allowed attempt failed.
Dropped(ordinal) ==
  \E i \in PostsOf(ordinal) :
    posts[i].outcome = "failed" /\ posts[i].attempt = maxAttempts

\* The envelope of that ordinal is still waiting in the queue.
Queued(ordinal) == \E k \in DOMAIN bridgeQueue : bridgeQueue[k].ordinal = ordinal

Settled(ordinal) == Delivered(ordinal) \/ Dropped(ordinal)

\* The session events among the envelopes, in the order they were enqueued.
EnqueuedEvents ==
  LET events == SelectSeq(enqueued, LAMBDA e : e.type = "session_event") IN
  [i \in DOMAIN events |-> events[i].body]

PostsInFlight == {i \in DOMAIN posts : posts[i].outcome = "pending"}

EnqueuedOfType(type) == {o \in DOMAIN enqueued : enqueued[o].type = type}

Received == request'.count = request.count + 1

\* The state the handlers work on.
ServerState == <<storeVars, orchVars, egressVars, bridgeQueue, enqueued>>

\* C21: on the routes that take x-asterisk-secret and on those that take
\* x-control-secret, a request is answered 403 exactly when the secret is
\* configured and the header is missing or differs from it; a refused request
\* changes no state and reaches no handler; with the exact secret, or with no
\* secret configured, the request is not refused for its secret.
C21_SecretGate ==
  [][Received =>
       LET secret == routeSecret(request'.route)
           header == request'.header
           configured == secret.set /\ secret.value # <<>>
           exact == header.set /\ header.value = secret.value
       IN
       /\ request'.route \in SecretRoutes
       /\ request'.status = 403 <=> configured /\ ~exact
       /\ request'.status = 403 =>
            /\ UNCHANGED ServerState
            /\ request'.stage = "responded"
            /\ ret'.op = "http" /\ ret'.status = 403]_vars

\* A call is open and the asterisk secret is configured; a request to end the
\* call arrives with a different secret and is refused, the session staying
\* active.
C21_Witness ==
  /\ asteriskSharedSecret = Str(Secret)
  /\ request.route = "/asterisk/end"
  /\ request.body = ByCallId(HttpCallId)
  /\ request.header = Str(<<"x">>)
  /\ request.status = 403
  /\ ret.op = "http"
  /\ 1 \in DOMAIN sessions /\ sessions[1].state = "active"

\* `^\+[1-9]\d{7,14}$`
DecimalDigits == {"0", "1", "2", "3", "4", "5", "6", "7", "8", "9"}
isE164(text) ==
  /\ Len(text) \in 9..16
  /\ text[1] = "+"
  /\ text[2] \in DecimalDigits \ {"0"}
  /\ \A i \in 3..Len(text) : text[i] \in DecimalDigits

\* The payload parses and is invalid input: it fails the validation of its
\* route, or it is an inbound handshake whose caller number is not E.164.
InvalidInput(route, body) ==
  /\ readsBody(route)
  /\ ~readJsonBodyThrows(body)
  /\ \/ ~validates(route, body)
     \/ /\ route = "/asterisk/inbound"
        /\ isString(body.from)
        /\ ~isE164(body.from.value)

\* C22: a request that is not refused for its secret and whose payload is
\* invalid input is answered 400 and reaches no handler, and the session
\* store, the egress store, the metrics and the rate-limit state are the same
\* before and after it.
C22_InvalidInputMutatesNothing ==
  /\ [][Received /\ InvalidInput(request'.route, request'.body) /\ request'.status # 403 =>
          /\ request'.status = 400
          /\ request'.stage = "responded"
          /\ UNCHANGED ServerState]_vars
  /\ [][request.stage = "dispatch" /\ InvalidInput(request.route, request.body) =>
          UNCHANGED ServerState]_vars

\* A handshake whose caller is no E.164 number passed the validation and
\* created a session.
C22_Witness ==
  /\ request.route = "/asterisk/inbound"
  /\ request.body = InboundBody(HttpCallId, NotE164Caller)
  /\ ~isE164(request.body.from.value)
  /\ isE164(E164Caller)
  /\ request.status = 0
  /\ ret.op = "onIncomingCall" /\ ~ret.duplicate
  /\ ret.sessionId \in DOMAIN sessions

SessionRoutes == {"/asterisk/media", "/asterisk/end", "/asterisk/egress/next"}

\* The request names a session by sessionId or by callId and source, and the
\* gateway knows no such session.
NamesUnknownSession(route, body) ==
  /\ route \in SessionRoutes
  /\ ~readJsonBodyThrows(body)
  /\ validates(route, body)
  /\ IF isString(body.sessionId) /\ route # "/asterisk/media"
     THEN sessionIdOf(body.sessionId.value) \notin DOMAIN sessions
     ELSE /\ isString(body.callId)
          /\ resolveSessionIdByExternal(externalToInternal, sessions, sourceOf(body.source),
                                        body.callId.value) = 0

\* C23: a media frame, an egress poll or an end request that is not refused
\* for its secret and names a session the gateway does not know is answered
\* 404, by the route or by its handler, and changes no state; a frame that
\* reaches onAudioFrame with an unknown sessionId calls no provider and
\* creates no metrics entry.
C23_UnknownSession ==
  /\ [][Received /\ NamesUnknownSession(request'.route, request'.body)
          /\ request'.status # 403 =>
          /\ request'.status \in {0, 404}
          /\ UNCHANGED ServerState]_vars
  /\ [][request.stage = "dispatch" /\ ret.op = "dispatch"
          /\ NamesUnknownSession(request.route, request.body) =>
          /\ ret'.status = 404
          /\ UNCHANGED ServerState]_vars
  /\ [][ret'.op = "onAudioFrame" /\ ret'.sessionId \notin DOMAIN sessions =>
          UNCHANGED <<metrics, lastFrameAtMs, inflight, sttLog>>]_vars

\* A session is open; the egress queue of a sessionId that names no session
\* was polled and the poll was answered 204.
C23_Witness ==
  /\ request.route = "/asterisk/egress/next"
  /\ request.body = BySessionId(UnknownSessionText)
  /\ ret.op = "egressNext"
  /\ ret.sessionId \notin DOMAIN sessions
  /\ ret.status = 204
  /\ sessions # <<>>

\* The place of a stage in the lifecycle parse -> validate -> authenticate ->
\* dispatch -> respond.
StageRank(stage) ==
  CASE stage = "parse" -> 1
    [] stage = "validate" -> 2
    [] stage = "authenticate" -> 3
    [] stage = "dispatch" -> 4
    [] stage = "respond" -> 5

StagesPassed == {request.stages[i] : i \in DOMAIN request.stages}

\* C24: the stages a request on an authenticated route passes are in the
\* order parse, validate, authenticate, dispatch, respond; a request with a
\* payload is authenticated only after its payload was validated and is
\* dispatched only after both; and a request that is not dispatched is
\* answered once, with 500 when a stage threw.
C24_StageOrder ==
  [](request.count > 0 =>
       /\ \A i, j \in DOMAIN request.stages :
            i < j => StageRank(request.stages[i]) < StageRank(request.stages[j])
       /\ readsBody(request.route) /\ "authenticate" \in StagesPassed =>
            "validate" \in StagesPassed
       /\ "dispatch" \in StagesPassed =>
            /\ "authenticate" \in StagesPassed
            /\ readsBody(request.route) => "validate" \in StagesPassed
       /\ "dispatch" \in StagesPassed <=> request.status = 0
       /\ "respond" \in StagesPassed <=> request.stage = "responded"
       /\ "respond" \in StagesPassed <=> "dispatch" \notin StagesPassed
       /\ readJsonBodyThrows(request.body) /\ "parse" \in StagesPassed =>
            request.status = 500)

\* A handshake with a different secret and a payload that lacks its required
\* fields was refused for the secret, its payload never parsed or validated.
C24_Witness ==
  /\ asteriskSharedSecret = Str(Secret)
  /\ request.route = "/asterisk/inbound"
  /\ request.header = Str(<<"x">>)
  /\ request.body = EmptyBody
  /\ ~validateAsteriskInboundPayload(request.body)
  /\ request.stages = <<"authenticate", "respond">>
  /\ request.status = 403
  /\ ret.op = "http"

\* The orders the fields of a form can be taken in, and those that take the
\* keys in ascending order.
FieldOrders(form) ==
  {p \in [DOMAIN form -> DOMAIN form] : \A i, j \in DOMAIN form : i # j => p[i] # p[j]}
Ascending(form, p) ==
  \A i, j \in DOMAIN form : i < j => lessThan(form[p[i]][1], form[p[j]][1])

RECURSIVE PairsFrom(_, _, _)
PairsFrom(form, p, i) ==
  IF i > Len(form) THEN <<>>
  ELSE form[p[i]][1] \o form[p[i]][2] \o PairsFrom(form, p, i + 1)

\* The URL followed by the key+value pairs in sorted key order.
SignedText(url, form) ==
  url \o PairsFrom(form, CHOOSE p \in FieldOrders(form) : Ascending(form, p), 1)

\* The rank of each key among the keys of its form.
KeyRank(form, i) == Cardinality({j \in DOMAIN form : lessThan(form[j][1], form[i][1])})

\* g is f with one key replaced, and with one value replaced.
KeyChanged(f, g) ==
  /\ Len(f) = Len(g)
  /\ \E i \in DOMAIN f :
       /\ f[i][1] # g[i][1] /\ f[i][2] = g[i][2]
       /\ \A j \in DOMAIN f \ {i} : f[j] = g[j]
KeyChangedInPlace(f, g) ==
  /\ KeyChanged(f, g)
  /\ \A i \in DOMAIN f : KeyRank(f, i) = KeyRank(g, i)
ValueChanged(f, g) ==
  /\ Len(f) = Len(g)
  /\ \E i \in DOMAIN f :
       /\ f[i][1] = g[i][1] /\ f[i][2] # g[i][2]
       /\ \A j \in DOMAIN f \ {i} : f[j] = g[j]

TwilioUrls == {buildPublicUrl(TwilioPath, b, h) : b \in PublicBaseUrls, h \in Hosts} \cup {OtherUrl}

\* The URL the signature of the request is computed for.
RequestUrl == buildPublicUrl(TwilioPath, publicBaseUrl, request.body.host)

\* With a token configured the request is refused with 403 and no state
\* change unless its header is the HMAC, keyed by the token, of the signed
\* text; with no token every request passes; sessions are created by passed
\* requests only.
SignatureGate ==
  /\ [][Received /\ request'.route = "/twilio/voice" =>
          LET configured == twilioAuthToken.set /\ twilioAuthToken.value # <<>>
              expected == hmacSha1Base64(twilioAuthToken.value,
                                         SignedText(RequestUrl', request'.body.form))
              matches == request'.header.set /\ request'.header.value = expected
          IN
          /\ request'.status = 403 <=> configured /\ ~matches
          /\ request'.status = 403 =>
               /\ request'.stage = "responded"
               /\ UNCHANGED ServerState
          /\ request'.status # 403 => request'.status = 0 /\ request'.stage = "dispatch"]_vars
  /\ [][sessions' # sessions =>
          /\ request.route = "/twilio/voice" /\ request.status = 0
          /\ ret.op = "dispatch"
          /\ ret'.op = "onIncomingCall"
          /\ ret'.externalCallId = parseTwilioIncoming(request.body.form)]_vars

\* The signature is the same for every ordering of the form fields.
SameForEveryOrdering ==
  [](request.route = "/twilio/voice" =>
       \A g \in TwilioFormBodies :
         entriesOf(g) = entriesOf(request.body.form) =>
           computeTwilioSignature(RequestUrl, g, AuthToken)
             = computeTwilioSignature(RequestUrl, request.body.form, AuthToken))

\* The signature differs when the url, a value or the token changes.
ChangesWithUrlValueToken ==
  [](request.route = "/twilio/voice" =>
       LET f == request.body.form
           signature == computeTwilioSignature(RequestUrl, f, AuthToken)
       IN
       /\ \A token \in TwilioTokens \ {AuthToken} :
            computeTwilioSignature(RequestUrl, f, token) # signature
       /\ \A url \in TwilioUrls \ {RequestUrl} :
            computeTwilioSignature(url, f, AuthToken) # signature
       /\ \A g \in TwilioFormBodies :
            ValueChanged(f, g) => computeTwilioSignature(RequestUrl, g, AuthToken) # signature)

\* The signature differs when a key changes.
ChangesWithKey ==
  [](request.route = "/twilio/voice" =>
       \A g \in TwilioFormBodies :
         KeyChanged(request.body.form, g) =>
           computeTwilioSignature(RequestUrl, g, AuthToken)
             # computeTwilioSignature(RequestUrl, request.body.form, AuthToken))

\* The signature differs when a key changes and keeps its place among the
\* sorted keys, and otherwise exactly when the signed text does.
ChangesWithKeyInPlace ==
  [](request.route = "/twilio/voice" =>
       \A g \in TwilioFormBodies :
         LET f == request.body.form
             same == computeTwilioSignature(RequestUrl, g, AuthToken)
                       = computeTwilioSignature(RequestUrl, f, AuthToken)
         IN
         /\ KeyChangedInPlace(f, g) => ~same
         /\ KeyChanged(f, g) => (same <=> SignedText(RequestUrl, g) = SignedText(RequestUrl, f)))

\* C25 as stated: the signature gate of POST /twilio/voice; the signature is
\* the same for every ordering of the form fields and differs when the url,
\* a key, a value or the token changes.
C25_SignatureDiffersOnAnyChange ==
  /\ SignatureGate
  /\ SameForEveryOrdering
  /\ ChangesWithUrlValueToken
  /\ ChangesWithKey

\* C25, amended: the signature gate of POST /twilio/voice; the signature is
\* the same for every ordering of the form fields and differs when the url,
\* a value or the token changes, or when a key changes and keeps its place
\* among the sorted keys; after any other change of a key it differs exactly
\* when the text url + sorted key+value pairs does.
C25_SignatureGate ==
  /\ SignatureGate
  /\ SameForEveryOrdering
  /\ ChangesWithUrlValueToken
  /\ ChangesWithKeyInPlace

\* A token is configured.  Twilio signed the form {ab: "", aba: ""}; the
\* request carried the form {ba: "", aba: ""}, whose fields are not in sorted
\* order and whose signed text is the same; it passed the gate and its
\* session was created.
C25_Witness ==
  /\ twilioAuthToken = Str(AuthToken)
  /\ request.route = "/twilio/voice"
  /\ request.body.form = << <<<<"b", "a">>, <<>>>>, <<<<"a", "b", "a">>, <<>>>> >>
  /\ KeyChanged(SignedForm, << <<<<"b", "a">>, <<>>>>, <<<<"a", "b", "a">>, <<>>>> >>)
  /\ request.header = Str(computeTwilioSignature(RequestUrl, SignedForm, AuthToken))
  /\ request.status = 0
  /\ ret.op = "onIncomingCall" /\ ~ret.duplicate
  /\ ret.externalCallId = UnknownCallSid
  /\ ret.sessionId \in DOMAIN sessions

\* C26: onIncomingCall creates the session and makes it active in one step,
\* so that every session any operation can observe is active or ended: none
\* is pending, and none is ever failed.
C26_CreatedActive ==
  /\ [](\A id \in DOMAIN sessions : sessions[id].state \in {"active", "ended"})
  /\ [][ret'.op = "onIncomingCall" /\ ~ret'.duplicate =>
          /\ ret'.sessionId \notin DOMAIN sessions
          /\ ret'.sessionId \in DOMAIN sessions'
          /\ sessions'[ret'.sessionId].state = "active"]_vars
  /\ [][\A id \in DOMAIN sessions :
          sessions'[id].state # sessions[id].state =>
            sessions[id].state = "active" /\ sessions'[id].state = "ended"]_vars

\* A second call was accepted after the first one ended: the new session is
\* active as soon as onIncomingCall has returned it.
C26_Witness ==
  /\ ret.op = "onIncomingCall" /\ ~ret.duplicate
  /\ ret.sessionId \in DOMAIN sessions
  /\ sessions[ret.sessionId].state = "active"
  /\ \E id \in DOMAIN sessions : sessions[id].state = "ended"

\* The session.started events handed to the hook for a session.
StartedEvents(log, id) ==
  {i \in DOMAIN log : log[i].type = "session.started" /\ log[i].sessionId = id}

\* C27: with the hook set, session.started is emitted exactly once per
\* session, by the onIncomingCall call that creates the session and with the
\* session active, and a duplicate handshake emits nothing.
C27_StartedOnce ==
  /\ [](hasOnSessionEvent =>
          \A id \in DOMAIN sessions : Cardinality(StartedEvents(emitted, id)) = 1)
  /\ [](\A i \in DOMAIN emitted :
          emitted[i].type = "session.started" => emitted[i].sessionId \in DOMAIN sessions)
  /\ [][(\E i \in DOMAIN emitted' \ DOMAIN emitted : emitted'[i].type = "session.started") =>
          /\ ret'.op = "onIncomingCall" /\ ~ret'.duplicate
          /\ ret'.sessionId \notin DOMAIN sessions
          /\ emitted' = Append(emitted, SessionEvent("session.started", ret'.sessionId, 0))
          /\ sessions'[ret'.sessionId].state = "active"]_vars
  /\ [][ret'.op = "onIncomingCall" /\ ret'.duplicate => emitted' = emitted]_vars

\* The hook is set; a call was accepted and ended, and its handshake was then
\* repeated: the hook has the session's one session.started and its
\* session.ended, and nothing from the repeated handshake.
C27_Witness ==
  /\ hasOnSessionEvent
  /\ ret.op = "onIncomingCall" /\ ret.duplicate
  /\ sessions[ret.sessionId].state = "ended"
  /\ Cardinality(StartedEvents(emitted, ret.sessionId)) = 1
  /\ emitted = <<SessionEvent("session.started", ret.sessionId, 0),
                 SessionEvent("session.ended", ret.sessionId, 0)>>

\* The fields of a session the claim of C28 names.
SessionFields(session) ==
  <<session.state, session.mode, session.sourceLanguage, session.targetLanguage,
    session.inboundCaller, session.startedAtMs>>

\* C28: a handshake for a (source, externalId) pair that was accepted before
\* is answered with the session of the first handshake, whatever caller and
\* arrival time it carries and whether that session is active or ended; it
\* changes no field of the session, no metrics, no rate-limit timestamp and
\* no egress queue, creates no session and emits no event.
C28_DuplicateChangesNothing ==
  [][ret'.op = "onIncomingCall"
       /\ <<ret'.source, ret'.externalCallId>> \in DOMAIN handshakes =>
       LET id == handshakes[<<ret'.source, ret'.externalCallId>>] IN
       /\ ret'.duplicate
       /\ ret'.sessionId = id
       /\ id \in DOMAIN sessions
       /\ SessionFields(sessions'[id]) = SessionFields(sessions[id])
       /\ DOMAIN sessions' = DOMAIN sessions
       /\ UNCHANGED <<sessions, externalToInternal, nextId>>
       /\ UNCHANGED <<metrics, lastFrameAtMs, inflight, queues, egressLog, emitted>>]_vars

\* The call was accepted, switched to passthrough and fed a frame; it ended,
\* and a chunk arrived for it afterwards.  Its handshake was then repeated
\* with another caller and arrival time: the session is as it was.
C28_Witness ==
  /\ ret.op = "onIncomingCall" /\ ret.duplicate
  /\ ret.sessionId \in DOMAIN sessions
  /\ sessions[ret.sessionId].state = "ended"
  /\ sessions[ret.sessionId].mode = "passthrough"
  /\ sessions[ret.sessionId].inboundCaller = AnyCaller
  /\ sessions[ret.sessionId].startedAtMs = 0
  /\ size(queues, ret.sessionId) = 1
  /\ ret.sessionId \in DOMAIN metrics
  /\ Len(emitted) = MaxEvents

\* The counters of a session's metrics, and its latency gauges.
CountersOf(m, id) ==
  LET entry == metricsGet(m, id) IN
  <<entry.droppedFrames, entry.passthroughFrames, entry.translatedChunks,
    entry.egressQueuePeak, entry.egressDropCount>>

\* The frame whose provider call has just been answered, as it was suspended.
AnsweredFrame == CHOOSE f \in inflight : f.n = ret'.n /\ f.sessionId = ret'.sessionId

\* The frame goes no further: it awaits nothing any more, no provider was
\* called for it, nothing was emitted and nothing enqueued.
FrameStops ==
  /\ \A g \in inflight' : g.n # ret'.n
  /\ inflight' = inflight \ {AnsweredFrame}
  /\ ret'.steps = AnsweredFrame.steps
  /\ emitted' = emitted
  /\ UNCHANGED <<queues, egressLog, chunkCount>>
  /\ CountersOf(metrics', ret'.sessionId) = CountersOf(metrics, ret'.sessionId)

\* C29: when STT answers null or whitespace-only text the frame stops with no
\* session.transcript event and no MT or TTS call, and only sttLatencyMs is
\* updated; when MT answers null the frame stops with no session.translation
\* event and no TTS call, and only sttLatencyMs and translationLatencyMs are
\* updated; in both cases the counters are unchanged and nothing is enqueued.
C29_NullResultsStopTheFrame ==
  /\ [][ret'.op = "stt" /\ ret'.result \in {"null", "blank"} =>
          LET id == ret'.sessionId
              before == metricsGet(metrics, id)
              after == metricsGet(metrics', id)
          IN
          /\ FrameStops
          /\ "translate" \notin {ret'.steps[i] : i \in DOMAIN ret'.steps}
          /\ after.sttLatencyMs \in SttLatencies
          /\ after = [before EXCEPT !.sttLatencyMs = after.sttLatencyMs]]_vars
  /\ [][ret'.op = "mt" /\ ret'.result = "null" =>
          LET id == ret'.sessionId
              before == metricsGet(metrics, id)
              after == metricsGet(metrics', id)
          IN
          /\ FrameStops
          /\ "synthesize" \notin {ret'.steps[i] : i \in DOMAIN ret'.steps}
          /\ after.sttLatencyMs = AnsweredFrame.sttLatencyMs
          /\ after.translationLatencyMs \in MtLatencies
          /\ after = [before EXCEPT !.sttLatencyMs = after.sttLatencyMs,
                                    !.translationLatencyMs = after.translationLatencyMs]]_vars

\* Two frames were delivered: STT answered whitespace-only text for the first
\* and a transcript for the second, whose translation then came back null.
\* The hook has one transcript and no translation, the two gauges are set,
\* nothing was translated and the egress queue is empty.
C29_Witness ==
  /\ ret.op = "mt" /\ ret.result = "null" /\ ret.n = 2
  /\ inflight = {}
  /\ emitted = <<SessionEvent("session.started", 1, 0),
                 SessionEvent("session.transcript", 1, 2)>>
  /\ metricsGet(metrics, 1).sttLatencyMs \in SttLatencies
  /\ metricsGet(metrics, 1).translationLatencyMs \in MtLatencies
  /\ metricsGet(metrics, 1).ttsLatencyMs = Undefined
  /\ metricsGet(metrics, 1).pipelineLatencyMs = Undefined
  /\ translatedChunksOf(metrics, 1) = 0
  /\ size(queues, 1) = 0
  /\ chunkCount = 0

\* The tags of the chunks of a sequence grow: the chunks are in the order
\* their TTS calls completed in.
InCompletionOrder(chunks) ==
  \A i, j \in DOMAIN chunks : i < j => chunks[i].payload < chunks[j].payload

\* C30: a frame that enters the STT stage leaves the frames that await a
\* provider as they are, whatever their session; the chunk of a TTS call that
\* completes is enqueued in that step, behind the chunks of the calls that
\* completed before it, and nothing else enqueues or reorders, so that the
\* chunks of a session are enqueued, and queued, in the order in which their
\* TTS calls completed.
C30_NotSerializedNotReordered ==
  /\ [][ret'.op = "onAudioFrame" /\ ret'.outcome = "stt" =>
          /\ inflight \subseteq inflight'
          /\ \E f \in inflight' \ inflight :
               /\ inflight' = inflight \cup {f}
               /\ f.pc = "stt" /\ f.sessionId = ret'.sessionId
               /\ \A g \in inflight : g.n < f.n]_vars
  /\ [][ret'.op = "tts" /\ ret'.result = "chunk" =>
          LET id == ret'.sessionId
              chunk == TtsChunk(id, chunkCount + 1)
              before == queueOf(queues, id)
              after == queueOf(queues', id)
          IN
          /\ chunkCount' = chunkCount + 1
          /\ after # <<>> /\ Last(after) = chunk
          /\ after \in {Append(before, chunk), Tail(Append(before, chunk))}
          /\ egressLogOf(egressLog', id).enqueued
               = Append(egressLogOf(egressLog, id).enqueued, chunk)
          /\ \A other \in DOMAIN queues \ {id} : queueOf(queues', other) = queues[other]]_vars
  /\ [][(\E id \in DOMAIN egressLog' :
           egressLogOf(egressLog', id).enqueued # egressLogOf(egressLog, id).enqueued) =>
          ret'.op = "tts" /\ ret'.result = "chunk"]_vars
  /\ [](\A id \in DOMAIN queues : InCompletionOrder(queues[id]))
  /\ [](\A id \in DOMAIN egressLog : InCompletionOrder(egressLog[id].enqueued))

\* Two frames of one session were in the pipeline together.  The TTS call of
\* the second completed first, and that frame still awaits its callback; the
\* TTS call of the first has now completed, and its chunk is queued behind
\* the chunk of the second.
C30_Witness ==
  /\ ret.op = "tts" /\ ret.result = "chunk" /\ ret.n = 1
  /\ chunkCount = 2
  /\ \E f, g \in inflight :
       /\ f.n = 1 /\ g.n = 2
       /\ f.sessionId = g.sessionId
       /\ f.pc = "callback" /\ g.pc = "callback"
       /\ queues[f.sessionId] = <<TtsChunk(f.sessionId, 1), TtsChunk(f.sessionId, 2)>>

\* The value a counter of a session's metrics reads as (`?? 0`).
CounterOf(m, sessionId, field) == Coalesce(metricsGet(m, sessionId)[field], 0)

\* What the step that was just taken adds to each counter of a session.
DroppedBy(r, id) ==
  IF r.op = "onAudioFrame" /\ r.sessionId = id /\ r.outcome = "dropped" THEN 1 ELSE 0

PassedThroughBy(r, id) ==
  IF r.op = "onAudioFrame" /\ r.sessionId = id /\ r.outcome = "passthrough" THEN 1 ELSE 0

TranslatedBy(r, id) ==
  IF r.sessionId = id /\ (r.op = "finish" \/ (r.op = "tts" /\ r.result = "null"))
  THEN 1 ELSE 0

\* C31: whatever the interleaving of frames, egress reports and control
\* operations, every step adds to droppedFrames, passthroughFrames and
\* translatedChunks of a session exactly what it counts (one, or nothing),
\* egressDropCount grows by one exactly when an enqueue dropped the oldest
\* chunk, egressQueuePeak never shrinks, and a metrics entry, once created,
\* stays; the counters equal the number of frames refused by the rate limiter
\* and of chunks the store dropped.
C31_CountersMonotonic ==
  /\ [][\A id \in DOMAIN metrics \cup DOMAIN metrics' :
          /\ id \in DOMAIN metrics'
          /\ CounterOf(metrics', id, "droppedFrames")
               = CounterOf(metrics, id, "droppedFrames") + DroppedBy(ret', id)
          /\ CounterOf(metrics', id, "passthroughFrames")
               = CounterOf(metrics, id, "passthroughFrames") + PassedThroughBy(ret', id)
          /\ CounterOf(metrics', id, "translatedChunks")
               = CounterOf(metrics, id, "translatedChunks") + TranslatedBy(ret', id)
          /\ CounterOf(metrics', id, "egressDropCount")
               = CounterOf(metrics, id, "egressDropCount")
                 + Cardinality(egressLogOf(egressLog', id).dropped)
                 - Cardinality(egressLogOf(egressLog, id).dropped)
          /\ CounterOf(metrics', id, "egressDropCount")
               \in {CounterOf(metrics, id, "egressDropCount"),
                    CounterOf(metrics, id, "egressDropCount") + 1}
          /\ CounterOf(metrics', id, "egressQueuePeak")
               >= CounterOf(metrics, id, "egressQueuePeak")]_vars
  /\ [](\A id \in DOMAIN sessions :
          /\ CounterOf(metrics, id, "droppedFrames") + Len(queueOf(sttLog, id))
               = Len(queueOf(frameLog, id))
          /\ CounterOf(metrics, id, "egressDropCount")
               = Cardinality(egressLogOf(egressLog, id).dropped))

\* Two frames of a session were in the pipeline together; the chunk of the
\* second pushed the chunk of the first out of a queue of one, and then the
\* first frame finished: both frames are counted, and the latency samples it
\* wrote left the drop count and the peak as they were.
C31_Witness ==
  /\ ret.op = "finish" /\ ret.n = 1
  /\ CounterOf(metrics, ret.sessionId, "translatedChunks") = 2
  /\ CounterOf(metrics, ret.sessionId, "egressDropCount") = 1
  /\ CounterOf(metrics, ret.sessionId, "egressQueuePeak") = 1
  /\ metricsGet(metrics, ret.sessionId).sttLatencyMs # Undefined

\* The frame the step that was just taken delivered to a known session.
FrameDelivered(r) == r.op = "onAudioFrame" /\ r.outcome # "unknown_session"

\* C32: the limiter's reference is the timestamp of the last frame handed to
\* STT: it is written by no step but the one that hands a frame to STT, so a
\* dropped frame and a passthrough frame leave it as it is; the first frame a
\* session gets in translation mode is never dropped; and every frame of a
\* private-translation session whose timestamp is at least minFrameIntervalMs
\* after the reference is handed to STT and becomes the reference.
C32_MeasuredFromLastAccepted ==
  /\ [][FrameDelivered(ret') =>
          LET id == ret'.sessionId
              t == ret'.timestampMs
              first == id \notin DOMAIN lastFrameAtMs
              paced == first \/ t - lastFrameAtMs[id] >= Coalesce(minFrameIntervalMs, 0)
          IN
          /\ ret'.outcome \in {"dropped", "passthrough"} =>
               lastFrameAtMs' = lastFrameAtMs /\ sttLog' = sttLog /\ inflight' = inflight
          /\ first => ret'.outcome # "dropped"
          /\ sessions[id].mode = "private_translation" /\ paced =>
               /\ ret'.outcome = "stt"
               /\ sttLog'[id] = Append(queueOf(sttLog, id), t)
               /\ lastFrameAtMs'[id] = t
               /\ \E f \in inflight' \ inflight : f.sessionId = id /\ f.pc = "stt"]_vars
  /\ [][lastFrameAtMs' # lastFrameAtMs =>
          FrameDelivered(ret') /\ ret'.outcome = "stt"]_vars
  /\ [](\A id \in DOMAIN sessions :
          /\ id \in DOMAIN lastFrameAtMs <=> queueOf(sttLog, id) # <<>>
          /\ id \in DOMAIN lastFrameAtMs =>
               lastFrameAtMs[id] = sttLog[id][Len(sttLog[id])])

\* Steady pacing at the largest interval: the frame at 0 was accepted, the
\* frame in between was dropped, and the frame one interval after the
\* accepted one has just been handed to STT.
C32_Witness ==
  /\ ret.op = "onAudioFrame" /\ ret.outcome = "stt"
  /\ minFrameIntervalMs = MaxInterval
  /\ ret.timestampMs = MaxInterval
  /\ sttLog[ret.sessionId] = <<0, MaxInterval>>
  /\ Len(frameLog[ret.sessionId]) = 3
  /\ CounterOf(metrics, ret.sessionId, "droppedFrames") = 1

\* The fields a control patch may carry.
PatchFields == {"mode", "sourceLanguage", "targetLanguage"}

\* The session accepts control patches: it exists and has not ended.
Patchable(id) == id \in DOMAIN sessions /\ sessions[id].state \in {"pending", "active"}

\* C33: a control patch on a session that accepts it sets each field the
\* patch carries and keeps each field it does not carry; id, source, state,
\* caller and start time of the session, and every other session, stay as
\* they are; one session.control.updated event with the resulting mode and
\* languages is handed to the hook, and the session is answered (200).  A
\* patch on an id no session has changes nothing, emits nothing and is
\* answered 404.
C33_PatchChangesExactlyItsFields ==
  [][\A id \in {ret'.sessionId}, patch \in Patches :
       ret'.op = "updateSessionControl" /\ SessionControl(id, patch) =>
         /\ Patchable(id) =>
              /\ \A field \in PatchFields :
                   sessions'[id][field] = IF patch[field] = "none" THEN sessions[id][field]
                                          ELSE patch[field]
              /\ \A field \in DOMAIN sessions[id] \ PatchFields :
                   sessions'[id][field] = sessions[id][field]
              /\ DOMAIN sessions' = DOMAIN sessions
              /\ \A other \in DOMAIN sessions \ {id} : sessions'[other] = sessions[other]
              /\ Len(emitted') = Len(emitted) + 1
              /\ emitted'[Len(emitted')].type = "session.control.updated"
              /\ emitted'[Len(emitted')].sessionId = id
              /\ emitted'[Len(emitted')].payload
                   = [mode |-> sessions'[id].mode,
                      sourceLanguage |-> sessions'[id].sourceLanguage,
                      targetLanguage |-> sessions'[id].targetLanguage]
              /\ SubSeq(emitted', 1, Len(emitted)) = emitted
              /\ ret'.status = 200
         /\ id \notin DOMAIN sessions =>
              /\ sessions' = sessions
              /\ emitted' = emitted
              /\ ret'.status = 404
         /\ externalToInternal' = externalToInternal
         /\ metrics' = metrics /\ queues' = queues]_vars

\* A patch that carried the target language alone was applied to session 1:
\* the language is the patched one, mode and source language are those the
\* session was created with, the event carries all three, and session 2 is
\* as its handshake left it.
C33_Witness ==
  /\ ret.op = "updateSessionControl" /\ ret.sessionId = 1 /\ ret.status = 200
  /\ 2 \in DOMAIN sessions
  /\ sessions[1].mode = "private_translation"
  /\ sessions[1].sourceLanguage = "es"
  /\ sessions[1].targetLanguage = "es"
  /\ sessions[2].targetLanguage = "en"
  /\ emitted # <<>>
  /\ emitted[Len(emitted)].type = "session.control.updated"
  /\ emitted[Len(emitted)].payload.targetLanguage = "es"

\* The step that was just taken ended a session over POST /asterisk/end.
EndedOk(r) == r.op = "endSession" /\ r.status = 200

\* C34: a POST /asterisk/end that resolves its session, by call id or by
\* session id, leaves the session ended and without an egress queue, and
\* leaves the queues and the states of the other sessions as they were; an
\* egress poll for the session that comes next is answered 204 with no chunk.
C34_EndClearsEgress ==
  /\ [][EndedOk(ret') =>
          LET id == ret'.sessionId IN
          /\ sessions'[id].state = "ended"
          /\ size(queues', id) = 0
          /\ Range(queueOf(queues, id)) \subseteq egressLogOf(egressLog', id).cleared
          /\ \A other \in DOMAIN sessions \ {id} :
               /\ queueOf(queues', other) = queueOf(queues, other)
               /\ sessions'[other] = sessions[other]]_vars
  /\ [][EndedOk(ret) /\ ret'.op = "egressNext" /\ ret'.sessionId = ret.sessionId =>
          /\ ret'.status = 204
          /\ ret'.chunk = NoChunk
          /\ queues' = queues]_vars
  /\ [](EndedOk(ret) =>
          sessions[ret.sessionId].state = "ended" /\ size(queues, ret.sessionId) = 0)

\* Session 1 had a chunk waiting when it was ended; the chunk was cleared, the
\* poll that followed was answered 204, and the chunk of session 2 still waits.
C34_Witness ==
  /\ ret.op = "egressNext" /\ ret.sessionId = 1 /\ ret.status = 204
  /\ sessions[1].state = "ended"
  /\ egressLogOf(egressLog, 1).cleared # {}
  /\ size(queues, 1) = 0
  /\ 2 \in DOMAIN sessions /\ sessions[2].state = "active"
  /\ size(queues, 2) = 1

\* The session of the step that was just taken had ended before the step.
OfEndedSession(r) ==
  /\ r.op \in {"onAudioFrame", "stt", "mt", "tts"}
  /\ r.sessionId \in DOMAIN sessions
  /\ sessions[r.sessionId].state = "ended"

\* C35: a frame that arrives for an ended session is handed to no provider;
\* a provider answer for a frame of an ended session hands no event to the
\* hook and no chunk to the Egress Store, and calls no further provider; the
\* egress queue of an ended session is empty.
C35_NoWorkForEndedSession ==
  /\ [][OfEndedSession(ret') /\ ret'.op = "onAudioFrame" =>
          /\ ret'.outcome # "stt"
          /\ sttLog' = sttLog
          /\ inflight' = inflight]_vars
  /\ [][OfEndedSession(ret') /\ ret'.op # "onAudioFrame" =>
          /\ emitted' = emitted
          /\ queues' = queues
          /\ egressLog' = egressLog
          /\ \A f \in inflight' : f.n = ret'.n => f \in inflight]_vars
  /\ [](\A id \in DOMAIN sessions :
          sessions[id].state = "ended" => size(queues, id) = 0)

\* The session was ended and its queue cleared while a frame awaited TTS; the
\* TTS call has now answered, and its chunk waits in the queue of the ended
\* session.
C35_Witness ==
  /\ ret.op = "tts" /\ ret.result = "chunk"
  /\ sessions[ret.sessionId].state = "ended"
  /\ size(queues, ret.sessionId) = 1
  /\ \E i \in DOMAIN emitted :
       /\ emitted[i].type = "session.ended"
       /\ \E j \in DOMAIN emitted : j > i /\ emitted[j].type = "session.translation"

\* The session.ended events of a session in the hook's stream.
EndedEvents(id) ==
  {i \in DOMAIN emitted : emitted[i].type = "session.ended" /\ emitted[i].sessionId = id}

\* C36: the hook is handed session.ended at most once per session, by the
\* end that moves the session to ended; an end of a session that has ended
\* already, and an end that resolves no session, emit nothing.
C36_EndedAtMostOnce ==
  /\ [](\A id \in DOMAIN sessions : Cardinality(EndedEvents(id)) <= 1)
  /\ [][ret'.op = "endSession" /\ emitted' # emitted =>
          /\ ret'.sessionId \in DOMAIN sessions
          /\ sessions[ret'.sessionId].state # "ended"
          /\ sessions'[ret'.sessionId].state = "ended"]_vars

\* The call of session 1 was ended twice, and the hook was handed
\* session.ended both times.
C36_Witness ==
  /\ ret.op = "endSession" /\ ret.sessionId = 1 /\ ret.status = 200
  /\ sessions[1].state = "ended"
  /\ Cardinality(EndedEvents(1)) = 2

\* The session the step that was just taken was about (0: none).
ActedOn(r) == IF "sessionId" \in DOMAIN r THEN r.sessionId ELSE 0

\* What the gateway holds for one session.
HeldFor(sess, q, m, last, id) ==
  <<get(sess, id), queueOf(q, id), metricsGet(m, id),
    IF id \in DOMAIN last THEN last[id] ELSE Undefined>>

\* C37: a step that is about one session (a frame, a provider answer, an
\* enqueue, a poll, an end) leaves the session record, the egress queue, the
\* metrics and the rate-limit timestamp of every other session as they were;
\* the chunk of a TTS answer goes to the queue of the frame's session; every
\* queue holds chunks of its own session only, and a poll returns a chunk of
\* the session it polls.
C37_SessionsIsolated ==
  /\ [][\A other \in DOMAIN sessions :
          ActedOn(ret') # 0 /\ other # ActedOn(ret') =>
            HeldFor(sessions', queues', metrics', lastFrameAtMs', other)
              = HeldFor(sessions, queues, metrics, lastFrameAtMs, other)]_vars
  /\ [][ret'.op = "tts" /\ ret'.result = "chunk" =>
          LET after == queueOf(queues', ret'.sessionId) IN
          /\ after # <<>>
          /\ after[Len(after)] = TtsChunk(ret'.sessionId, chunkCount')]_vars
  /\ [][ret'.op = "egressNext" /\ ret'.status = 200 =>
          /\ ret'.chunk.sessionId = ret'.sessionId
          /\ ret'.chunk = queues[ret'.sessionId][1]]_vars
  /\ [](\A id \in DOMAIN queues : \A i \in DOMAIN queues[id] :
          queues[id][i].sessionId = id)

\* Session 1 has the chunk of its frame waiting and session 2 the chunk it
\* was handed; the poll for session 2 has just returned the chunk of session
\* 2, and the chunk of session 1 still waits.
C37_Witness ==
  /\ ret.op = "egressNext" /\ ret.sessionId = 2 /\ ret.status = 200
  /\ ret.chunk.sessionId = 2
  /\ size(queues, 2) = 0
  /\ size(queues, 1) = 1
  /\ queues[1][1].sessionId = 1
  /\ metricsGet(metrics, 1).translatedChunks = 1
  /\ 1 \in DOMAIN lastFrameAtMs /\ 2 \notin DOMAIN lastFrameAtMs

\* What the orchestrator and the stores hold.
Orchestrated == <<storeVars, orchVars, egressVars, sttLog, frameLog, frameCount, emitted>>

\* C38: on the media WebSocket a frame is handed to the orchestrator only
\* while the connection holds a callSid and the session its start message
\* resolved, a webhook-stream session mapped to that callSid; the frame is
\* for that session, with encoding mulaw at 8000 Hz.  A media message
\* before any start, after a start without callSid or with an unmapped one,
\* or without payload, is dropped and the orchestrator is not called.  A stop
\* message and the close of the socket end the session of the connection and
\* no other; without one they end nothing.
C38_MediaSocketProtocol ==
  /\ [][ret'.op = "onAudioFrame" =>
          /\ socket.open
          /\ ~noCallSid(socket.callSid)
          /\ socket.sessionId \in DOMAIN sessions
          /\ sessions[socket.sessionId].source = Twilio
          /\ getByExternal(externalToInternal, sessions, Twilio, socket.callSid.value).id
               = socket.sessionId
          /\ ret'.sessionId = socket.sessionId
          /\ ret'.outcome # "unknown_session"
          /\ mediaFrame(socket.sessionId, ret'.timestampMs).encoding = "mulaw"
          /\ mediaFrame(socket.sessionId, ret'.timestampMs).sampleRateHz = 8000
          /\ mediaFrame(socket.sessionId, ret'.timestampMs).source = Twilio]_vars
  /\ [][ret'.op = "wsMedia" =>
          /\ \/ socket.sessionId = 0
             \/ noCallSid(socket.callSid)
             \/ ~ret'.hasPayload
          /\ Orchestrated' = Orchestrated]_vars
  /\ [][socket.open /\ frameCount' = frameCount + 1 => ret'.op = "onAudioFrame"]_vars
  /\ [][ret'.op = "endSession" =>
          /\ socket.open
          /\ ret'.sessionId = socket.sessionId
          /\ socket.sessionId \in DOMAIN sessions
          /\ sessions'[socket.sessionId].state = "ended"
          /\ \A other \in DOMAIN sessions \ {socket.sessionId} :
               sessions'[other] = sessions[other]]_vars
  /\ [][ret'.op \in {"wsStop", "wsClose"} =>
          socket.sessionId = 0 /\ Orchestrated' = Orchestrated]_vars
  /\ [](socket.sessionId # 0 =>
          /\ socket.sessionId \in DOMAIN sessions
          /\ sessions[socket.sessionId].source = Twilio)

\* The connection resolved the session of the webhook, handed it a frame,
\* and was then closed: that session has ended, and the SIP-bridge session
\* with the same call id is still active.
C38_Witness ==
  /\ ret.op = "endSession" /\ ~socket.open
  /\ \E id \in DOMAIN sessions :
       /\ id = ret.sessionId
       /\ sessions[id].source = Twilio /\ sessions[id].state = "ended"
       /\ id \in DOMAIN sttLog /\ Len(sttLog[id]) = 1
  /\ \E other \in DOMAIN sessions :
       sessions[other].source = Voipms /\ sessions[other].state = "active"

\* min(250 * 2^(k-1), 2000)
ScheduledWaitMs(k) == IF 250 * 2 ^ (k - 1) < 2000 THEN 250 * 2 ^ (k - 1) ELSE 2000

\* The drain loops that wait for a backoff.
Waiting == {i \in DOMAIN drainLoops : drainLoops[i].pc = "backoff"}

NeverAnswered == ret.op = "post" => ret.status = "timeout"

====
